---- MODULE Spec2Model ----
(***************************************************************************)
(* A model of the AudioPlayer controller of src/src/audio-player.js: the   *)
(* options record, the track metadata, the native media element it drives, *)
(* the media notifications in flight and the events it emits.              *)
(*                                                                         *)
(* Numbers.  Every JavaScript number is kept as an integer count of        *)
(* hundredths: 1 is 100, 0.2 is 20, a volume of 100 is 10000.  The media   *)
(* element's volume (a fraction 0..1) is kept as the percentage it stands  *)
(* for, in hundredths as well, so options.volume / 100 is a change of unit *)
(* and Math.round(audio.volume * 100) is a real rounding.                  *)
(***************************************************************************)
EXTENDS Integers, Sequences, FiniteSets, TLC

VARIABLES
    options,     \* this._options
    meta,        \* this._meta
    media,       \* the <audio> element behind this._audio
    pending,     \* media notifications queued by the element, oldest first
    dom,         \* what the control surface (this._dom) shows, and the frames
                 \* its window has been asked for
    rafId,       \* TRUE while a frame callback of the progress loop is requested
    destroyed,   \* this._destroyed
    handles,     \* TRUE while this._audio and this._dom are not null
    events,      \* this._events: for each event name its handlers, oldest first
    lastTimeEmit,\* this._lastTimeEmit, in milliseconds
    now,         \* what Date.now() returns, in milliseconds
    emittedAt,   \* Date.now() at the latest emission of timeupdate, if there was one
    emitted,     \* calls of emit() since the last public call began
    invoked,     \* calls of handlers since the last public call began
    subscribed,  \* what on() and off() were called for: the subscriptions in force
    lastCall,    \* the last public call: its name, its argument, the state before it
    raised       \* the TypeError the last public call ended with, or "none"

vars == <<options, meta, media, pending, dom, rafId, destroyed, handles, events,
          lastTimeEmit, now, emittedAt, emitted, invoked, subscribed, lastCall, raised>>

-----------------------------------------------------------------------------
(* JavaScript values as they arrive from a caller.                         *)

JNum(n)       == [n |-> n, t |-> "num", s |-> ""]
JNaN          == [n |-> 0, t |-> "nan", s |-> ""]
JInf          == [n |-> 0, t |-> "inf", s |-> ""]
JStr(s)       == [n |-> 0, t |-> "str", s |-> s]       \* text without outer blanks
JPad(s)       == [n |-> 0, t |-> "pad", s |-> s]       \* s with blanks around it
JNumStr(s, n) == [n |-> n, t |-> "numstr", s |-> s]    \* text s spelling number n
JNull         == [n |-> 0, t |-> "null", s |-> ""]
JUndef        == [n |-> 0, t |-> "undef", s |-> ""]
JBool(b)      == [n |-> IF b THEN 100 ELSE 0, t |-> "bool", s |-> ""]
JObj          == [n |-> 0, t |-> "obj", s |-> ""]

IsString(v) == v.t \in {"str", "pad", "numstr"}
IsNullish(v) == v.t \in {"null", "undef"}

\* the characters of a string value
StringOf(v) == IF v.t = "pad" THEN " " \o v.s \o " " ELSE v.s

\* String.prototype.trim
Trim(v) == IF v.t = "pad" THEN JStr(v.s) ELSE v

\* Number(value): [fin |-> is it a finite number, n |-> which]
NotFinite == [n |-> 0, fin |-> FALSE]
Finite(n) == [n |-> n, fin |-> TRUE]
ToNumber(v) ==
    CASE v.t \in {"num", "numstr", "bool"} -> Finite(v.n)
      [] v.t \in {"str", "pad"} -> IF v.s = "" THEN Finite(0) ELSE NotFinite
      [] v.t = "null" -> Finite(0)
      [] OTHER -> NotFinite

\* Boolean(value)
ToBoolean(v) ==
    CASE v.t \in {"num", "bool"} -> v.n # 0
      [] v.t = "str" -> v.s # ""
      [] v.t \in {"pad", "numstr", "inf", "obj"} -> TRUE
      [] OTHER -> FALSE

MinOf(a, b) == IF a < b THEN a ELSE b
MaxOf(a, b) == IF a > b THEN a ELSE b

\* Math.round on hundredths: to the nearest whole, halves upwards
MathRound(n) == ((n + 50) \div 100) * 100

-----------------------------------------------------------------------------
(* The options model.                                                      *)

DEFAULT_OPTIONS ==
    [src |-> "", volume |-> 10000, muted |-> FALSE, playbackRate |-> 100,
     playbackRateMin |-> 20, playbackRateMax |-> 200, playbackRateStep |-> 5,
     seekStep |-> 1000, allowDownload |-> TRUE, showTime |-> TRUE,
     theme |-> "auto", downloadFilename |-> JNull,
     ariaLabelPrefix |-> "Audio player", unknown |-> {}]

OptionKeys ==
    {"src", "volume", "muted", "playbackRate", "playbackRateMin",
     "playbackRateMax", "playbackRateStep", "seekStep", "allowDownload",
     "showTime", "theme", "downloadFilename", "ariaLabelPrefix"}

\* clampNumber(value, min, max): null, or the number clamped
NullNumber == [n |-> 0, null |-> TRUE]
\* three wrong variants, to compare with: no upper bound, no lower bound, and
\* no null for what is not a finite number
clampNumberDropsUpper(value, min, max) ==
    LET num == ToNumber(value)
    IN  IF ~num.fin THEN NullNumber
        ELSE [n |-> MaxOf(min, num.n), null |-> FALSE]
clampNumberDropsLower(value, min, max) ==
    LET num == ToNumber(value)
    IN  IF ~num.fin THEN NullNumber
        ELSE [n |-> MinOf(max, num.n), null |-> FALSE]
clampNumberAcceptsAll(value, min, max) ==
    LET num == ToNumber(value)
    IN  [n |-> MinOf(max, MaxOf(min, num.n)), null |-> FALSE]
clampNumber(value, min, max) ==
    LET num == ToNumber(value)
    IN  IF ~num.fin THEN NullNumber
        ELSE [n |-> MinOf(max, MaxOf(min, num.n)), null |-> FALSE]

\* a ?? b, for a result of clampNumber
Coalesce(c, fallback) == IF c.null THEN fallback ELSE c.n

\* typeof v === "string" && v.trim() ? v.trim() : fallback
TrimmedOr(v, fallback) ==
    IF IsString(v) /\ ToBoolean(Trim(v)) THEN Trim(v).s ELSE fallback

\* the same with a null fallback, for downloadFilename and meta.filename
TrimmedOrNull(v) ==
    IF IsString(v) /\ ToBoolean(Trim(v)) THEN JStr(Trim(v).s) ELSE JNull

\* A stored option read back as the JavaScript value it is.
OptionValue(o, key) ==
    CASE key = "src" -> JStr(o.src)
      [] key = "volume" -> JNum(o.volume)
      [] key = "muted" -> JBool(o.muted)
      [] key = "playbackRate" -> JNum(o.playbackRate)
      [] key = "playbackRateMin" -> JNum(o.playbackRateMin)
      [] key = "playbackRateMax" -> JNum(o.playbackRateMax)
      [] key = "playbackRateStep" -> JNum(o.playbackRateStep)
      [] key = "seekStep" -> JNum(o.seekStep)
      [] key = "allowDownload" -> JBool(o.allowDownload)
      [] key = "showTime" -> JBool(o.showTime)
      [] key = "theme" -> JStr(o.theme)
      [] key = "downloadFilename" -> o.downloadFilename
      [] key = "ariaLabelPrefix" -> JStr(o.ariaLabelPrefix)
      [] OTHER -> JObj

\* { ...this._options } handed back to setOptions (the constructor, resetOptions)
OptionsAsPartial(o) ==
    [k \in OptionKeys \cup o.unknown |-> OptionValue(o, k)]

Has(partial, key) == key \in DOMAIN partial

\* this._mergeOptions(base, override, includeUnknown)
_mergeOptions(base, override, includeUnknown) ==
    LET taken(key) ==
            Has(override, key) /\ (includeUnknown \/ key \in OptionKeys \cup base.unknown)
        raw(key) == IF taken(key) THEN override[key] ELSE OptionValue(base, key)
        min0 == Coalesce(clampNumber(raw("playbackRateMin"), 20, 400), base.playbackRateMin)
        max0 == Coalesce(clampNumber(raw("playbackRateMax"), 20, 400), base.playbackRateMax)
        min1 == IF min0 > max0 THEN max0 ELSE min0
        max1 == IF min0 > max0 THEN min0 ELSE max0
    IN  [src |-> IF IsString(raw("src")) THEN StringOf(raw("src")) ELSE "",
         volume |-> Coalesce(clampNumber(raw("volume"), 0, 10000), base.volume),
         muted |-> ToBoolean(raw("muted")),
         playbackRate |-> Coalesce(clampNumber(raw("playbackRate"), min1, max1), 100),
         playbackRateMin |-> min1,
         playbackRateMax |-> max1,
         playbackRateStep |->
             Coalesce(clampNumber(raw("playbackRateStep"), 1, 100), base.playbackRateStep),
         seekStep |-> Coalesce(clampNumber(raw("seekStep"), 100, 12000), base.seekStep),
         allowDownload |-> ToBoolean(raw("allowDownload")),
         showTime |-> ToBoolean(raw("showTime")),
         theme |-> TrimmedOr(raw("theme"), base.theme),
         downloadFilename |-> TrimmedOrNull(raw("downloadFilename")),
         ariaLabelPrefix |-> TrimmedOr(raw("ariaLabelPrefix"), base.ariaLabelPrefix),
         unknown |-> base.unknown \cup
                     {k \in DOMAIN override \ OptionKeys : includeUnknown}]

\* setOptions, lines 146-268: the record `next` built from this._options and partial
SetOptionsNext(cur, partial) ==
    LET clampInto(key, lo, hi, old) ==
            IF Has(partial, key)
            THEN Coalesce(clampNumber(partial[key], lo, hi), old)
            ELSE old
        truthOf(key, old) == IF Has(partial, key) THEN ToBoolean(partial[key]) ELSE old
        volume == clampInto("volume", 0, 10000, cur.volume)
        rate0 == clampInto("playbackRate", cur.playbackRateMin, cur.playbackRateMax,
                           cur.playbackRate)
        min0 == clampInto("playbackRateMin", 20, 400, cur.playbackRateMin)
        max0 == clampInto("playbackRateMax", 20, 400, cur.playbackRateMax)
        min1 == IF min0 > max0 THEN max0 ELSE min0
        max1 == IF min0 > max0 THEN min0 ELSE max0
        rate1 == Coalesce(clampNumber(JNum(rate0), min1, max1), rate0)
    IN  [src |-> IF Has(partial, "src")
                 THEN (IF IsString(partial.src) THEN StringOf(partial.src) ELSE "")
                 ELSE cur.src,
         volume |-> volume,
         muted |-> truthOf("muted", cur.muted),
         playbackRate |-> rate1,
         playbackRateMin |-> min1,
         playbackRateMax |-> max1,
         playbackRateStep |-> clampInto("playbackRateStep", 1, 100, cur.playbackRateStep),
         seekStep |-> clampInto("seekStep", 100, 12000, cur.seekStep),
         allowDownload |-> truthOf("allowDownload", cur.allowDownload),
         showTime |-> truthOf("showTime", cur.showTime),
         theme |-> IF Has(partial, "theme")
                   THEN TrimmedOr(partial.theme, DEFAULT_OPTIONS.theme)
                   ELSE cur.theme,
         downloadFilename |-> IF Has(partial, "downloadFilename")
                              THEN TrimmedOrNull(partial.downloadFilename)
                              ELSE cur.downloadFilename,
         ariaLabelPrefix |-> IF Has(partial, "ariaLabelPrefix")
                             THEN TrimmedOr(partial.ariaLabelPrefix,
                                            DEFAULT_OPTIONS.ariaLabelPrefix)
                             ELSE cur.ariaLabelPrefix,
         unknown |-> cur.unknown]

-----------------------------------------------------------------------------
(* The media element and the control surface.  A world is the record of    *)
(* everything a method can change; the methods below are functions from    *)
(* worlds to worlds, composed in the order of the statements they model.   *)

NaN == -1       \* audio.duration before the metadata is known

\* _handleTimeUpdate, line 923: the least distance of two timeupdate events
ThrottleMs == 200

\* Date.now() when the player is built, in milliseconds
StartOfClock == 1000

World ==
    [options |-> options, meta |-> meta, media |-> media, pending |-> pending,
     dom |-> dom, rafId |-> rafId, destroyed |-> destroyed, handles |-> handles,
     events |-> events, lastTimeEmit |-> lastTimeEmit, now |-> now,
     emittedAt |-> emittedAt, emitted |-> emitted, invoked |-> invoked,
     uncaught |-> FALSE]

\* an emitted event: its name and its payload (numbers n and m, flag b, text s)
Ev(name, n, m, b, s) == [n |-> n, s |-> s, b |-> b, name |-> name, m |-> m]

\* The element queues a task that fires `name` at its listeners.
Queue(w, name) == [w EXCEPT !.pending = Append(@, name)]

\* audio.playbackRate = r: ratechange is queued when the value changes
\* (SetMediaRateIgnored: a wrong variant in which the write is lost)
SetMediaRateIgnored(w, r) == w
SetMediaRate(w, r) ==
    IF w.media.playbackRate = r THEN w
    ELSE Queue([w EXCEPT !.media.playbackRate = r], "ratechange")

\* audio.volume = v / 100: volumechange is queued when the value changes
SetMediaVolume(w, v) ==
    IF w.media.volume = v THEN w
    ELSE Queue([w EXCEPT !.media.volume = v], "volumechange")

\* audio.muted = b
SetMediaMuted(w, b) ==
    IF w.media.muted = b THEN w
    ELSE Queue([w EXCEPT !.media.muted = b], "volumechange")

\* audio.pause()
MediaPause(w) ==
    IF w.media.paused THEN w
    ELSE Queue([w EXCEPT !.media.paused = TRUE], "pause")

\* The element's load algorithm, run by audio.load() and by every write of
\* audio.src.  An element that follows the HTML Standard (standard = TRUE)
\* drops the tasks it had queued and sets playbackRate back to
\* defaultPlaybackRate; other builds leave both alone.
ResetPlayback(w) ==
    [w EXCEPT !.media.paused = TRUE,
              !.media.currentTime = 0,
              !.media.duration = NaN,
              !.media.loading = w.media.hasSrc /\ w.media.srcAttr # ""]
MediaLoadAlgorithm(w, standard) ==
    IF standard THEN SetMediaRate([ResetPlayback(w) EXCEPT !.pending = <<>>], 100)
    ELSE ResetPlayback(w)

\* audio.src = s
SetMediaSrc(w, s, standard) ==
    MediaLoadAlgorithm([w EXCEPT !.media.hasSrc = TRUE, !.media.srcAttr = s], standard)

\* The window's list of animation frame callbacks, as far as it holds the
\* callback of the progress loop: requestAnimationFrame(tick) adds one,
\* cancelAnimationFrame(this._rafId) takes the requested one away, and a
\* callback that runs has left the list.
RequestFrame(w) == [w EXCEPT !.rafId = TRUE, !.dom.frames = @ + 1]
CancelFrame(w) == [w EXCEPT !.rafId = FALSE, !.dom.frames = @ - 1]
FrameRuns(w) == [w EXCEPT !.dom.frames = @ - 1]

\* this._stopProgressLoop()
\* (_stopProgressLoopNever: a wrong variant that leaves the loop alone)
_stopProgressLoopNever(w) == w
_stopProgressLoop(w) == IF w.rafId THEN CancelFrame(w) ELSE w

\* The listener registry.  EVENTS is the fixed set of names; a registry maps
\* each name to its handlers in the order a Set keeps them, and a name with
\* no Set is a name with no handler.
EVENTS ==
    {"ready", "play", "pause", "ended", "timeupdate", "seek", "ratechange",
     "volumechange", "mutechange", "optionschange", "download", "error", "srcchange"}
NoHandlers == [name \in EVENTS |-> <<>>]

\* A handler is a function value: s is its identity, which also tells what
\* its body does ("thrower" raises, "destroyer" calls destroy(), any other
\* returns), and n = 100 says that the destroy() it calls meets an element
\* that follows the HTML Standard's load algorithm.
JFn(id, n) == [n |-> n, t |-> "fn", s |-> id]
IsFunction(v) == v.t = "fn"
Raises(h) == h.s = "thrower"
Destroys(h) == h.s = "destroyer"

\* this.destroy() on a player that is not destroyed yet
Teardown(w, standard) ==
    [SetMediaSrc(MediaPause(_stopProgressLoop([w EXCEPT !.destroyed = TRUE])), "", standard)
        EXCEPT !.handles = FALSE, !.events = NoHandlers]

\* this.destroy()
\* (destroyUnguarded: a wrong variant without the guard of line 382)
destroyUnguarded(w, standard) == Teardown(w, standard)
destroy(w, standard) == IF w.destroyed THEN w ELSE Teardown(w, standard)

\* emit, lines 113-118: one handler is called inside try/catch
\* (TryCatchMissing: a wrong variant in which the exception leaves emit)
TryCatchMissing(w) == w
TryCatch(w) == [w EXCEPT !.uncaught = FALSE]
Run(w, h) ==
    IF Destroys(h) THEN destroy(w, h.n = 100)
    ELSE [w EXCEPT !.uncaught = Raises(h)]
Invoke(w, name, h) ==
    TryCatch(Run([w EXCEPT !.invoked =
                      Append(@, [destroyed |-> w.destroyed, name |-> name, handler |-> h])],
                 h))

\* emit, line 112: set.forEach over the Set the name had when emit began
RECURSIVE ForEach(_, _, _)
ForEach(w, name, hs) ==
    IF hs = <<>> \/ w.uncaught THEN w
    ELSE ForEach(Invoke(w, name, Head(hs)), name, Tail(hs))

\* this.emit(name, payload); the clock time of a timeupdate is noted
Emit(w, ev) ==
    ForEach([w EXCEPT !.emitted = Append(@, ev),
                      !.emittedAt = IF ev.name = "timeupdate" THEN <<w.now>> ELSE @],
            ev.name, w.events[ev.name])

\* audio.src read back: the attribute resolved against the document's URL
IsAbsoluteURL(s) == s \in {"http://h/a.mp3", "http://h/b.mp3"}
ResolveURL(s) == IF IsAbsoluteURL(s) THEN s ELSE "http://h/" \o s
MediaSrc(m) == IF m.hasSrc THEN ResolveURL(m.srcAttr) ELSE ""

\* this._updateRateUI()
_updateRateUI(w) ==
    LET rate == IF w.media.playbackRate # 0 THEN w.media.playbackRate
                ELSE w.options.playbackRate
    IN  [w EXCEPT !.options.playbackRate = rate, !.dom.rateValue = rate]

\* _updateVolumeUI, lines 861-868: the volume and mute displays
ShowVolume(w) ==
    [w EXCEPT !.dom.volumeValue = MathRound(w.media.volume), !.dom.muted = w.media.muted]

\* _updateVolumeUI, lines 871-874
EmitVolumeChange(w, volume) ==
    IF volume # w.options.volume
    THEN Emit([w EXCEPT !.options.volume = volume], Ev("volumechange", volume, 0, FALSE, ""))
    ELSE w

\* _updateVolumeUI, lines 875-878, not reached when line 873 has thrown
EmitMuteChange(w, muted) ==
    IF w.uncaught THEN w
    ELSE IF muted # w.options.muted
    THEN Emit([w EXCEPT !.options.muted = muted], Ev("mutechange", 0, 0, muted, ""))
    ELSE w

\* this._updateVolumeUI(skipEmit)
_updateVolumeUI(w, skipEmit) ==
    IF skipEmit THEN ShowVolume(w)
    ELSE EmitMuteChange(EmitVolumeChange(ShowVolume(w), MathRound(w.media.volume)),
                        w.media.muted)

\* this._syncDownloadState()
\* (_syncDownloadStateOfOptions: a wrong variant that ignores the metadata)
_syncDownloadStateOfOptions(w) == [w EXCEPT !.dom.downloadDisabled = ~w.options.allowDownload]
_syncDownloadState(w) ==
    LET allow == IF w.meta.allowDownload.t = "bool"
                 THEN ToBoolean(w.meta.allowDownload)
                 ELSE w.options.allowDownload
    IN  [w EXCEPT !.dom.downloadDisabled = ~allow]

\* this._updateTitle()
_updateTitle(w) == [w EXCEPT !.dom.title = w.meta.title]

\* this._updatePlayState()
_updatePlayState(w) == [w EXCEPT !.dom.playing = ~w.media.paused]

\* audio.playbackRate = options.playbackRate; this._updateRateUI()
SyncRate(w) == _updateRateUI(SetMediaRate(w, w.options.playbackRate))

\* audio.volume = options.volume / 100; audio.muted = options.muted;
\* this._updateVolumeUI(true)
\* (SyncVolumeRefreshesFirst: a wrong variant that refreshes the controls
\* before it writes to the element)
SyncVolumeRefreshesFirst(w) ==
    SetMediaMuted(SetMediaVolume(_updateVolumeUI(w, TRUE), w.options.volume), w.options.muted)
SyncVolume(w) ==
    _updateVolumeUI(SetMediaMuted(SetMediaVolume(w, w.options.volume), w.options.muted),
                    TRUE)

\* _applyOptions, line 776: data-theme
ApplyTheme(w) == [w EXCEPT !.dom.theme = w.options.theme]

\* _applyOptions, lines 783-788: the src attribute follows options.src
ApplySrc(w, standard) ==
    IF w.options.src # ""
           /\ (IF w.media.hasSrc THEN w.media.srcAttr ELSE "") # w.options.src
    THEN SetMediaSrc(w, w.options.src, standard)
    ELSE w

\* this._applyOptions()
_applyOptions(w, standard) ==
    _updateTitle(ApplySrc(ApplyTheme(_syncDownloadState(SyncVolume(SyncRate(w)))),
                          standard))

\* load, line 284: what src is compared with
\* (PreviousSourceOfElement: a wrong variant that ignores previousSrc)
PreviousSourceOfElement(w, previousSrc) == MediaSrc(w.media)
PreviousSource(w, previousSrc) ==
    IF IsNullish(previousSrc) THEN MediaSrc(w.media) ELSE StringOf(previousSrc)

\* load, lines 286-288
StopForLoad(w) == _stopProgressLoop(_updatePlayState(MediaPause(w)))

\* load, lines 290-297: this._meta from the meta argument
\* (MetaOfInherits: a wrong variant that keeps what meta does not supply)
MetaOfInherits(m) ==
    [allowDownload |-> IF Has(m, "allowDownload")
                       THEN (IF m.allowDownload.t = "bool" THEN m.allowDownload ELSE JUndef)
                       ELSE meta.allowDownload,
     title |-> IF Has(m, "title")
               THEN (IF IsString(m.title) THEN Trim(m.title).s ELSE "")
               ELSE meta.title,
     filename |-> IF Has(m, "filename") THEN TrimmedOrNull(m.filename) ELSE meta.filename]
MetaOf(m) ==
    [allowDownload |-> IF Has(m, "allowDownload") /\ m.allowDownload.t = "bool"
                       THEN m.allowDownload ELSE JUndef,
     title |-> IF Has(m, "title") /\ IsString(m.title) THEN Trim(m.title).s ELSE "",
     filename |-> IF Has(m, "filename") THEN TrimmedOrNull(m.filename) ELSE JNull]

\* load, lines 309-312: the progress display back to zero
ResetProgress(w) == [w EXCEPT !.dom.position = 0, !.dom.currentTime = 0]

\* load, lines 314-316
EmitSrcChange(w, src, previous) ==
    IF src # previous THEN Emit(w, Ev("srcchange", 0, 0, FALSE, src)) ELSE w

\* this.load(src, meta, previousSrc) for a src that passed the guard of line 283;
\* previousSrc is a string, or null
load(w, src, m, previousSrc, standard) ==
    EmitSrcChange(
        ResetProgress(_syncDownloadState(_updateTitle(SyncVolume(SyncRate(
            MediaLoadAlgorithm(
                SetMediaSrc([StopForLoad(w) EXCEPT !.meta = MetaOf(m), !.options.src = src],
                            src, standard),
                standard)))))),
        src, PreviousSource(w, previousSrc))

\* line 283: !src || typeof src !== "string"
\* (LoadRejectsNoString: a wrong variant that lets the empty string pass)
LoadRejectsNoString(srcValue) == ~IsString(srcValue)
LoadRejects(srcValue) == ~(IsString(srcValue) /\ ToBoolean(srcValue))

\* setOptions, lines 273-277: a src key reloads
ReloadAfter(w, partial, previousSrc, standard) ==
    IF Has(partial, "src") /\ w.options.src # ""
    THEN load(w, w.options.src, <<>>, JStr(previousSrc), standard)
    ELSE w

\* line 144, !partial || typeof partial !== "object": an object is kept as the
\* function from its keys to their values, any other argument as the plain
\* value it is, with its type tag (undefined never arrives: the parameter
\* defaults to {})
NotAnObjectNever(partial) == FALSE
NotAnObject(partial) == Has(partial, "t")

\* this.setOptions(partial) on a player that still has its handles
setOptions(w, partial, standard) ==
    IF NotAnObject(partial) THEN w
    ELSE ReloadAfter(_applyOptions([w EXCEPT !.options =
                                        SetOptionsNext(w.options, partial)],
                                   standard),
                     partial, w.options.src, standard)

-----------------------------------------------------------------------------
(* Construction.                                                           *)

FreshMedia ==
    [volume |-> 10000, muted |-> FALSE, playbackRate |-> 100, paused |-> TRUE,
     currentTime |-> 0, duration |-> NaN, loading |-> FALSE, hasSrc |-> FALSE,
     srcAttr |-> "", plays |-> <<>>]

\* The browser-level download: the latest link that _handleDownload built and
\* clicked, and whether the download event had been emitted when it did.
NoLink == [href |-> "", download |-> "", announced |-> FALSE]

\* this._buildUI(): the control surface as built
FreshDom ==
    [muted |-> FALSE, theme |-> "", currentTime |-> 0,
     duration |-> 0, frames |-> 0, rateValue |-> 100, volumeValue |-> 7000,
     downloadDisabled |-> FALSE, title |-> "", playing |-> FALSE, position |-> 0,
     link |-> NoLink]

EmptyMeta == [allowDownload |-> JUndef, title |-> "", filename |-> JNull]

\* the fields of a player whose options are o, before they are applied
NewWorld(o) ==
    [options |-> o, meta |-> EmptyMeta, media |-> FreshMedia, pending |-> <<>>,
     dom |-> FreshDom, rafId |-> FALSE, destroyed |-> FALSE, handles |-> TRUE,
     events |-> NoHandlers, lastTimeEmit |-> 0, now |-> StartOfClock,
     emittedAt |-> <<>>, emitted |-> <<>>, invoked |-> <<>>, uncaught |-> FALSE]

\* constructor, line 78: this.setOptions(this._options, true)
SetOwnOptions(w, standard) == setOptions(w, OptionsAsPartial(w.options), standard)

\* constructor, lines 82-84
FirstLoad(w, override, standard) ==
    IF w.options.src # ""
    THEN load(w, w.options.src, IF Has(override, "meta") THEN override.meta ELSE <<>>,
              JNull, standard)
    ELSE w

\* new AudioPlayer(container, override) with a container that resolves
Construct(override, standard) ==
    FirstLoad(SetOwnOptions(NewWorld(_mergeOptions(DEFAULT_OPTIONS, override, TRUE)),
                            standard),
              override, standard)

-----------------------------------------------------------------------------
(* The operations.  Each takes the world a call starts from and gives the  *)
(* world it leaves, the error it ends with ("none" when it returns) and,   *)
(* for setOptions, the record it returns.                                  *)

Result(w, err) == [w |-> w, err |-> err]

\* What audio.play() does at once.  It returns a promise, kept in media.plays
\* until its reaction has run: "pending" while the element may still start or
\* abandon playback, "blocked" when the element was not allowed to play and
\* rejected it on the spot, leaving the paused flag alone.
StartPlayback(w) ==
    IF w.media.paused
    THEN Queue([w EXCEPT !.media.paused = FALSE,
                         !.media.currentTime =
                             IF w.media.duration # NaN /\ @ = w.media.duration THEN 0 ELSE @],
               "play")
    ELSE w
MediaPlay(w, allowed) ==
    IF allowed THEN [StartPlayback(w) EXCEPT !.media.plays = Append(@, "pending")]
    ELSE [w EXCEPT !.media.plays = Append(@, "blocked")]

\* play, lines 321-323: the reaction to the promise of audio.play(); `outcome`
\* is "ok" when the promise was fulfilled and the reason when it was rejected
\* (PlayOutcomeDropped: a wrong variant with no catch callback)
PlayOutcomeDropped(w, outcome) == w
PlayOutcome(w, outcome) ==
    IF outcome = "ok" THEN w ELSE Emit(w, Ev("error", 0, 0, FALSE, outcome))

\* on(name, handler)
\* (onAppends: a wrong variant that keeps a list of handlers, not a Set)
onAppends(w, name, handler) ==
    IF name \notin EVENTS \/ ~IsFunction(handler) THEN w
    ELSE [w EXCEPT !.events[name] = Append(@, handler)]
on(w, name, handler) ==
    IF name \notin EVENTS \/ ~IsFunction(handler) THEN w
    ELSE [w EXCEPT !.events[name] =
              IF \E i \in DOMAIN @ : @[i] = handler THEN @ ELSE Append(@, handler)]

\* off(name, handler)
off(w, name, handler) ==
    IF name \notin EVENTS THEN w
    ELSE [w EXCEPT !.events[name] = SelectSeq(@, LAMBDA h : h # handler)]

\* this._emitOptionsChange([key]): the payload carries the live options
\* (_emitOptionsChangeStored: a wrong variant that carries the stored ones)
_emitOptionsChangeStored(w, key) ==
    Emit(w, Ev("optionschange", w.options.volume, w.options.playbackRate,
               w.options.muted, key))
_emitOptionsChange(w, key) ==
    Emit(w, Ev("optionschange", MathRound(w.media.volume), w.media.playbackRate,
               w.media.muted, key))

\* formatTime(seconds): the text m:ss, kept as the whole seconds it shows
formatTime(seconds) == IF seconds = NaN \/ seconds < 0 THEN 0 ELSE seconds \div 100

\* A rate as formatRate receives it: a double, written as its decimal value
\* in thousandths.  `below` tells that rate * 100, computed in doubles, falls
\* below the decimal product, as 1.005 * 100 = 100.49999999999999 does; it
\* matters only where the decimal product ends in .5.
Rate(milli, below) == [fin |-> TRUE, milli |-> milli, below |-> below]
NoRate == [fin |-> FALSE, milli |-> 0, below |-> FALSE]

\* Math.round(rate * 100): the nearest whole number, halves upwards
RoundTimes100(rate) ==
    IF rate.milli % 10 > 5 \/ (rate.milli % 10 = 5 /\ ~rate.below)
    THEN rate.milli \div 10 + 1
    ELSE rate.milli \div 10

\* the decimal digits of a natural number, as a text of single characters
Digit(d) == <<"0", "1", "2", "3", "4", "5", "6", "7", "8", "9">>[d + 1]
RECURSIVE Digits(_)
Digits(n) == IF n < 10 THEN <<Digit(n)>> ELSE Append(Digits(n \div 10), Digit(n % 10))

\* (h / 100).toFixed(2) for a whole number h of hundredths
toFixed2(h) == Digits(h \div 100) \o <<".", Digit((h % 100) \div 10), Digit(h % 10)>>

\* formatRate(rate) of src/src/audio-player.js
formatRate(rate) ==
    IF ~rate.fin THEN <<"1", "x">> ELSE Append(toFixed2(RoundTimes100(rate)), "x")

\* text.replace(/\.?0+$/, ""): the leftmost tail of the text that is an
\* optional point and then zeros only is cut off
IsZeroTail(text) ==
    LET zeros == IF text # <<>> /\ Head(text) = "." THEN Tail(text) ELSE text
    IN  zeros # <<>> /\ \A i \in DOMAIN zeros : zeros[i] = "0"
RECURSIVE StripZeros(_)
StripZeros(text) ==
    IF text = <<>> \/ IsZeroTail(text) THEN <<>>
    ELSE <<Head(text)>> \o StripZeros(Tail(text))

\* formatRate(rate) of src/unnamed/part_000
formatRateStripped(rate) ==
    IF ~rate.fin THEN <<"1", "x">>
    ELSE Append(StripZeros(toFixed2(RoundTimes100(rate))), "x")

\* this._syncProgress()
_syncProgress(w) ==
    [w EXCEPT !.dom.position = w.media.currentTime,
              !.dom.currentTime = formatTime(w.media.currentTime)]

\* this._syncProgress(currentTime) with a number, which may be NaN
_syncProgressTo(w, currentTime) ==
    IF currentTime = NaN THEN _syncProgress(w)
    ELSE [w EXCEPT !.dom.position = currentTime, !.dom.currentTime = formatTime(currentTime)]

\* this._startProgressLoop(): a frame is requested unless one is
_startProgressLoop(w) == IF w.rafId THEN w ELSE RequestFrame(w)

\* the callback `tick` of _startProgressLoop
\* (tickOnce: a wrong variant that requests no further frame)
tickOnce(w) ==
    IF ~w.handles \/ w.media.paused \/ w.destroyed THEN [w EXCEPT !.rafId = FALSE]
    ELSE [_syncProgress(w) EXCEPT !.rafId = FALSE]
tick(w) ==
    IF ~w.handles \/ w.media.paused \/ w.destroyed THEN [w EXCEPT !.rafId = FALSE]
    ELSE RequestFrame(_syncProgress(w))

\* this._handleTimeUpdate(), the listener of timeupdate
\* (_handleTimeUpdateKeepsStamp: a wrong variant without line 924)
ShowTime(w) ==
    Emit([w EXCEPT !.dom.currentTime = formatTime(w.media.currentTime)],
         Ev("timeupdate", w.media.currentTime, w.media.duration, FALSE, ""))
_handleTimeUpdateKeepsStamp(w) ==
    IF w.now - w.lastTimeEmit < ThrottleMs THEN w ELSE ShowTime(w)
_handleTimeUpdate(w) ==
    IF w.now - w.lastTimeEmit < ThrottleMs THEN w
    ELSE ShowTime([w EXCEPT !.lastTimeEmit = w.now])

\* this.seek(seconds) on a player that still has its handles
seek(w, seconds) ==
    LET num == ToNumber(seconds)
        from == w.media.currentTime
        to == IF seconds.t = "inf" THEN w.media.duration
              ELSE MaxOf(0, MinOf(w.media.duration, num.n))
    IN  IF w.media.duration = NaN THEN Result(w, "none")
        ELSE IF seconds.t # "inf" /\ ~num.fin THEN Result(w, "TypeError")
        ELSE IF from = to THEN Result(w, "none")
        ELSE Result(Emit(_syncProgress([w EXCEPT !.media.currentTime = to]),
                         Ev("seek", to, from, FALSE, "")),
                    "none")

\* _handleDownload, line 968: meta.filename || options.downloadFilename || ""
DownloadName(w) ==
    IF ToBoolean(w.meta.filename) THEN w.meta.filename.s
    ELSE IF ToBoolean(w.options.downloadFilename) THEN w.options.downloadFilename.s
    ELSE ""

\* _handleDownload, lines 971-976: the link is built and clicked
ClickLink(w, href, filename) ==
    [w EXCEPT !.dom.link =
         [href |-> href, download |-> filename,
          announced |-> w.emitted # <<>> /\ w.emitted[Len(w.emitted)].name = "download"]]

\* this._handleDownload(), the listener of the download button's click
\* (_handleDownloadClicksFirst: a wrong variant that emits after the click)
_handleDownloadClicksFirst(w) ==
    IF MediaSrc(w.media) = "" THEN w
    ELSE Emit(ClickLink(w, MediaSrc(w.media), DownloadName(w)),
              Ev("download", 0, 0, FALSE, MediaSrc(w.media)))
_handleDownload(w) ==
    IF MediaSrc(w.media) = "" THEN w
    ELSE ClickLink(Emit(w, Ev("download", 0, 0, FALSE, MediaSrc(w.media))),
                   MediaSrc(w.media), DownloadName(w))

\* the ratechange listener's emit
\* (EmitRateRequested: a wrong variant that reports the rate asked for)
EmitRateRequested(w) ==
    Emit(w, Ev("ratechange",
               IF lastCall.op = "setPlaybackRate" /\ lastCall.arg.t = "num"
               THEN lastCall.arg.n ELSE w.media.playbackRate,
               0, FALSE, ""))
EmitRateChange(w) == Emit(w, Ev("ratechange", w.media.playbackRate, 0, FALSE, ""))

\* this._updateDuration()
_updateDuration(w) ==
    [w EXCEPT !.dom.duration = IF w.media.duration = NaN THEN 0 ELSE w.media.duration]

\* the loadedmetadata listener's emit
\* (EmitReadyOfOptions: a wrong variant that reports options.src)
EmitReadyOfOptions(w) == Emit(w, Ev("ready", w.media.duration, 0, FALSE, w.options.src))
EmitReady(w) == Emit(w, Ev("ready", w.media.duration, 0, FALSE, MediaSrc(w.media)))

\* The listeners bound in _bindUI to the media element's notifications.
Handle(w, name) ==
    CASE name = "ratechange" -> EmitRateChange(_updateRateUI(w))
      [] name = "volumechange" -> _updateVolumeUI(w, FALSE)
      [] name = "loadedmetadata" ->
            EmitReady(_updateDuration(_updateVolumeUI(_updateRateUI(
                SetMediaMuted(
                    SetMediaVolume(SetMediaRate(w, w.options.playbackRate),
                                   w.options.volume),
                    w.options.muted)), TRUE)))
      [] name = "play" ->
            Emit(_startProgressLoop(_updatePlayState(w)), Ev("play", 0, 0, FALSE, ""))
      [] name = "ended" ->
            Emit(_stopProgressLoop(_syncProgressTo(_updatePlayState(w), w.media.duration)),
                 Ev("ended", 0, 0, FALSE, ""))
      [] name = "timeupdate" -> _handleTimeUpdate(w)
      [] name = "error" -> Emit(w, Ev("error", 0, 0, FALSE, "MediaError"))
      [] name = "pause" ->
            Emit(_stopProgressLoop(_updatePlayState(w)), Ev("pause", 0, 0, FALSE, ""))
      [] OTHER -> w

-----------------------------------------------------------------------------
(* The state machine.                                                      *)

\* how many media notifications may be queued at once
MaxPending == 2

\* how far the clock runs, in milliseconds
MaxClock == 1600

\* how many promises of audio.play() may wait for their reaction at once
MaxPlays == 1

\* how many notifications may be queued where two calls are followed up
MaxBurst == 3

\* What a behaviour records of its public calls, decided by Init: nothing
\* ("off"), the call that made the current state ("call"), or the last call
\* and the state it started from, kept while the element's notifications are
\* handled ("trace"), and with it the call before ("pair").
Observing == lastCall.mode # "off"
Tracing == lastCall.mode \in {"trace", "pair"}
PendingCap == IF lastCall.mode = "pair" THEN MaxBurst ELSE MaxPending
NoPrev == [op |-> "none", arg |-> JUndef]

NoSnapshot ==
    [options |-> DEFAULT_OPTIONS, meta |-> EmptyMeta, media |-> FreshMedia, pending |-> <<>>,
     dom |-> FreshDom, rafId |-> FALSE, destroyed |-> FALSE]

NoCall(mode) ==
    [meta |-> <<>>, op |-> "none", arg |-> JUndef, mode |-> mode, before |-> NoSnapshot,
     ret |-> DEFAULT_OPTIONS, fresh |-> FALSE, prev |-> NoPrev]

Snapshot ==
    [options |-> options, meta |-> meta, media |-> media, pending |-> pending,
     dom |-> dom, rafId |-> rafId, destroyed |-> destroyed]

\* the builds a call can meet: only a call that runs the load algorithm tells them apart
Builds(runsLoad) == IF runsLoad THEN BOOLEAN ELSE {TRUE}

Commit(w) ==
    /\ Len(w.pending) <= PendingCap
    /\ Len(w.media.plays) <= MaxPlays
    /\ options' = w.options
    /\ meta' = w.meta
    /\ media' = w.media
    /\ pending' = w.pending
    /\ dom' = w.dom
    /\ rafId' = w.rafId
    /\ destroyed' = w.destroyed
    /\ handles' = w.handles
    /\ events' = w.events
    /\ lastTimeEmit' = w.lastTimeEmit
    /\ emittedAt' = w.emittedAt
    /\ emitted' = IF Observing THEN w.emitted ELSE <<>>
    /\ invoked' = IF Observing THEN w.invoked ELSE <<>>

\* the world a public call starts from
Entry == [World EXCEPT !.emitted = <<>>, !.invoked = <<>>]

\* A public call ends: with r.err, having made the world r.w; m is the meta
\* argument of load, {} for every other call.
ReturnedWith(op, arg, m, r) ==
    /\ Commit(r.w)
    /\ raised' = IF r.w.uncaught THEN "HandlerError" ELSE r.err
    /\ UNCHANGED now
    /\ lastCall' = IF Observing
                   THEN [meta |-> m, op |-> op, arg |-> arg, mode |-> lastCall.mode,
                         before |-> CASE Tracing -> Snapshot
                                      [] lastCall.mode = "step" ->
                                            [NoSnapshot EXCEPT !.destroyed = destroyed]
                                      [] OTHER -> NoSnapshot,
                         ret |-> r.w.options, fresh |-> TRUE,
                         prev |-> IF lastCall.mode = "pair"
                                  THEN [op |-> lastCall.op, arg |-> lastCall.arg]
                                  ELSE NoPrev]
                   ELSE lastCall

Returned(op, arg, r) == ReturnedWith(op, arg, <<>>, r)

Called(op, arg, r) == Returned(op, arg, r) /\ UNCHANGED subscribed

\* the state a constructor call leaves: the world w, made of `override`
InitFrom(w, override, mode) ==
    /\ options = w.options
    /\ meta = w.meta
    /\ media = w.media
    /\ pending = w.pending
    /\ dom = w.dom
    /\ rafId = w.rafId
    /\ emitted = IF mode = "off" THEN <<>> ELSE w.emitted
    /\ destroyed = w.destroyed
    /\ handles = w.handles
    /\ events = w.events
    /\ lastTimeEmit = w.lastTimeEmit
    /\ now = StartOfClock
    /\ emittedAt = w.emittedAt
    /\ invoked = <<>>
    /\ subscribed = {}
    /\ lastCall = IF mode = "off" THEN NoCall(mode)
                  ELSE [meta |-> <<>>, op |-> "constructor", arg |-> override,
                        mode |-> mode, before |-> NoSnapshot, ret |-> w.options, fresh |-> TRUE,
                        prev |-> NoPrev]
    /\ raised = "none"

InitWith(overrides, mode) ==
    \E override \in overrides, standard \in BOOLEAN :
        \E w \in {Construct(override, standard)} : InitFrom(w, override, mode)

\* setOptions(partial); without its handles the call stores `next` and then
\* fails in _updateRateOptions, on this._dom
SetOptions(partial, standard) ==
    /\ Called("setOptions", partial,
              IF handles \/ NotAnObject(partial)
              THEN Result(setOptions(Entry, partial, standard), "none")
              ELSE Result([Entry EXCEPT !.options = SetOptionsNext(options, partial)],
                          "TypeError"))

\* { ...DEFAULT_OPTIONS, ...partial }, the argument resetOptions hands on
ResetPartial(partial) ==
    [k \in OptionKeys \cup DOMAIN partial |->
        IF Has(partial, k) THEN partial[k] ELSE OptionValue(DEFAULT_OPTIONS, k)]

\* resetOptions(partial)
ResetOptions(partial, standard) ==
    /\ Called("resetOptions", partial,
              IF handles
              THEN Result(setOptions(Entry, ResetPartial(partial), standard), "none")
              ELSE Result([Entry EXCEPT !.options =
                               SetOptionsNext(options, ResetPartial(partial))],
                          "TypeError"))

\* load(src, meta)
Load(srcValue, m, standard) ==
    /\ ReturnedWith("load", srcValue, m,
                    IF LoadRejects(srcValue) THEN Result(Entry, "none")
                    ELSE IF handles
                    THEN Result(load(Entry, StringOf(srcValue), m, JNull, standard), "none")
                    ELSE Result(Entry, "TypeError"))
    /\ UNCHANGED subscribed

\* setVolume(volume0to100)
SetVolume(value) ==
    LET c == clampNumber(value, 0, 10000)
        w1 == SetMediaVolume(Entry, c.n)
    IN  /\ Called("setVolume", value,
                  IF c.null THEN Result(Entry, "none")
                  ELSE IF handles
                  THEN Result(IF c.n > 0 /\ w1.media.muted
                              THEN SetMediaMuted(w1, FALSE) ELSE w1, "none")
                  ELSE Result(Entry, "TypeError"))

\* setPlaybackRate(rate)
SetPlaybackRate(value) ==
    LET c == clampNumber(value, options.playbackRateMin, options.playbackRateMax)
    IN  /\ Called("setPlaybackRate", value,
                  IF c.null THEN Result(Entry, "none")
                  ELSE IF handles THEN Result(SetMediaRate(Entry, c.n), "none")
                  ELSE Result(Entry, "TypeError"))

\* mute(), unmute(), toggleMute()
MuteCall(op) ==
    /\ Called(op, JUndef,
              IF handles
              THEN Result(SetMediaMuted(Entry, CASE op = "mute" -> TRUE
                                                 [] op = "unmute" -> FALSE
                                                 [] OTHER -> ~media.muted),
                          "none")
              ELSE Result(Entry, "TypeError"))

\* The subscriptions in force, kept apart from the registry: a pair of a
\* name of EVENTS and a function is subscribed from an on() for it to the next
\* off() for it, and `again` tells that on() was called for it while it was.
Subscription(name, handler, again) == [name |-> name, handler |-> handler, again |-> again]
Subscribed(name, handler) ==
    \E s \in subscribed : s.name = name /\ s.handler = handler
Unsubscribe(name, handler) ==
    {s \in subscribed : ~(s.name = name /\ s.handler = handler)}

\* on(name, handler)
On(name, handler) ==
    /\ Returned("on", handler, Result(on(Entry, name, handler), "none"))
    /\ subscribed' = IF name \in EVENTS /\ IsFunction(handler)
                     THEN Unsubscribe(name, handler)
                              \cup {Subscription(name, handler, Subscribed(name, handler))}
                     ELSE subscribed

\* off(name, handler)
Off(name, handler) ==
    /\ Returned("off", handler, Result(off(Entry, name, handler), "none"))
    /\ subscribed' = Unsubscribe(name, handler)

\* play()
Play(allowed) ==
    /\ Called("play", JUndef,
              Result(IF destroyed THEN Entry ELSE MediaPlay(Entry, allowed), "none"))

\* pause()
Pause ==
    /\ Called("pause", JUndef,
              Result(IF destroyed THEN Entry ELSE MediaPause(Entry), "none"))

\* toggle()
Toggle(allowed) ==
    /\ Called("toggle", JUndef,
              IF ~handles THEN Result(Entry, "TypeError")
              ELSE IF destroyed THEN Result(Entry, "none")
              ELSE Result(IF media.paused THEN MediaPlay(Entry, allowed)
                          ELSE MediaPause(Entry),
                          "none"))

\* seek(seconds)
Seek(seconds) ==
    /\ Called("seek", seconds,
              IF handles THEN seek(Entry, seconds) ELSE Result(Entry, "TypeError"))

\* seekBy(deltaSeconds)
SeekBy(deltaSeconds) ==
    LET delta == ToNumber(deltaSeconds)
    IN  /\ Called("seekBy", deltaSeconds,
                  IF ~delta.fin THEN Result(Entry, "none")
                  ELSE IF handles THEN seek(Entry, JNum(media.currentTime + delta.n))
                  ELSE Result(Entry, "TypeError"))

\* destroy()
Destroy(standard) == Called("destroy", JUndef, Result(destroy(Entry, standard), "none"))

\* A step of the element or of the browser, which is no public call.  A
\* behaviour that records steps ("step") records what the step was and what
\* it emitted; one that records calls ("call") forgets both.
Resume == IF Tracing THEN World ELSE Entry
Forget(w) == [w EXCEPT !.emitted = <<>>, !.invoked = <<>>]
BackgroundOf(w, op, arg) ==
    /\ Commit(IF Tracing \/ lastCall.mode = "step" THEN w ELSE Forget(w))
    /\ lastCall' = CASE Tracing -> [lastCall EXCEPT !.fresh = FALSE]
                      [] lastCall.mode = "step" ->
                            [NoCall("step") EXCEPT !.op = op, !.arg = arg]
                      [] OTHER -> NoCall(lastCall.mode)
    /\ UNCHANGED <<raised, now, subscribed>>
Background(w) == BackgroundOf(w, "none", JUndef)

\* The promise of the oldest audio.play() is settled and its reaction runs.
PlaySettles(outcome) ==
    /\ media.plays # <<>>
    /\ Head(media.plays) = "blocked" => outcome = "NotAllowedError"
    /\ BackgroundOf(PlayOutcome([Resume EXCEPT !.media.plays = Tail(@)], outcome),
                    "play settled", JStr(outcome))

\* A click on the mute button, lines 699-702; destroy() removes the listener.
MuteButton ==
    BackgroundOf(IF destroyed THEN Resume
                 ELSE _emitOptionsChange(SetMediaMuted(Resume, ~media.muted), "muted"),
                 "input", JStr("muteBtn"))

\* this.setPlaybackRate(rate) and this.setVolume(volume0to100) on a live player
setPlaybackRate(w, rate) ==
    IF clampNumber(rate, w.options.playbackRateMin, w.options.playbackRateMax).null THEN w
    ELSE SetMediaRate(w, clampNumber(rate, w.options.playbackRateMin,
                                     w.options.playbackRateMax).n)
Unmuted(w, value) == IF value > 0 /\ w.media.muted THEN SetMediaMuted(w, FALSE) ELSE w
setVolume(w, volume0to100) ==
    IF clampNumber(volume0to100, 0, 10000).null THEN w
    ELSE Unmuted(SetMediaVolume(w, clampNumber(volume0to100, 0, 10000).n),
                 clampNumber(volume0to100, 0, 10000).n)

\* this._handleRateInput(value)
_handleRateInput(w, value) ==
    IF ~ToNumber(value).fin THEN w ELSE setPlaybackRate(w, JNum(ToNumber(value).n))

\* what a control reports of an input: its name and the number it was set to
Input(control, value) == [n |-> ToNumber(value).n, t |-> "input", s |-> control]

\* The rate slider is moved to `value`, lines 685-688; a range input's value
\* is the text of a number.  destroy() removes the listener.
RateSlider(value) ==
    BackgroundOf(IF destroyed THEN Resume
                 ELSE _emitOptionsChange(_handleRateInput(Resume, value), "playbackRate"),
                 "input", Input("rateSlider", value))

\* The volume slider is moved to `value`, lines 703-706.
VolumeSlider(value) ==
    BackgroundOf(IF destroyed THEN Resume
                 ELSE _emitOptionsChange(setVolume(Resume, value), "volume"),
                 "input", Input("volumeSlider", value))

\* A click on the download button, line 707.  A disabled button fires no
\* click, and destroy() removes the listener.
DownloadButton ==
    /\ ~dom.downloadDisabled
    /\ BackgroundOf(IF destroyed THEN Resume ELSE _handleDownload(Resume),
                    "input", JStr("downloadBtn"))

\* The element fires its oldest queued notification; after destroy() no
\* listener is left on it.
Deliver ==
    /\ pending # <<>>
    /\ BackgroundOf(IF destroyed THEN [Resume EXCEPT !.pending = Tail(@)]
                    ELSE Handle([Resume EXCEPT !.pending = Tail(@)], Head(pending)),
                    "notification", JStr(Head(pending)))

\* The element has fetched the metadata of its source.
MetadataReady ==
    /\ media.loading
    /\ Background(Queue([Resume EXCEPT !.media.loading = FALSE, !.media.duration = 6000],
                        "loadedmetadata"))

\* The element fails to fetch or decode its source.
SourceFails ==
    /\ media.loading
    /\ Background(Queue([Resume EXCEPT !.media.loading = FALSE], "error"))

\* The element queues a notification of the progress of time.
TimeProgress == Background(Queue(Resume, "timeupdate"))

\* The clock advances.
Tick(ms) ==
    /\ now + ms <= MaxClock
    /\ now' = now + ms
    /\ lastCall' = IF Tracing THEN [lastCall EXCEPT !.fresh = FALSE]
                   ELSE NoCall(lastCall.mode)
    /\ UNCHANGED <<options, meta, media, pending, dom, rafId, destroyed, handles, events,
                   lastTimeEmit, emittedAt, emitted, invoked, subscribed, raised>>

\* The frame callback `tick` of _startProgressLoop runs.
Frame ==
    /\ dom.frames > 0
    /\ BackgroundOf(tick(FrameRuns(Resume)), "frame", JUndef)

\* how far the element plays between two steps, in hundredths of a second
Stride == 3000

\* The element plays on.  At the end of the source it pauses itself and
\* queues pause and ended.
PlaysOn ==
    /\ ~media.paused /\ media.duration # NaN /\ media.currentTime < media.duration
    /\ Background(IF media.currentTime + Stride < media.duration
                  THEN [Resume EXCEPT !.media.currentTime = @ + Stride]
                  ELSE Queue(Queue([Resume EXCEPT !.media.currentTime = media.duration,
                                                  !.media.paused = TRUE],
                                   "pause"),
                             "ended"))

-----------------------------------------------------------------------------
(* Inputs and specifications.                                              *)

\* The life of a player: sources, loading, playback and destroy(), with every
\* public method; the methods that adjust volume, rate and position get the
\* values a fresh player already has.
SrcInputs == {JStr(""), JStr("a.mp3"), JStr("http://h/b.mp3"), JNull}
Partials == {[src |-> v] : v \in {JStr(""), JStr("a.mp3")}}
Metas == {[allowDownload |-> JBool(FALSE), title |-> JPad("Song")]}
InitOverrides == {<<>>, [src |-> JStr("a.mp3"), foo |-> JObj]}

Init == InitWith(InitOverrides, "call")

Next ==
    \/ \E p \in Partials : \E standard \in Builds(Has(p, "src")) : SetOptions(p, standard)
    \/ \E v \in SrcInputs, m \in Metas, standard \in BOOLEAN : Load(v, m, standard)
    \/ \E v \in {JNum(10000)} : SetVolume(v)
    \/ \E v \in {JNum(100)} : SetPlaybackRate(v)
    \/ \E op \in {"mute", "unmute", "toggleMute"} : MuteCall(op)
    \/ \E allowed \in {TRUE} : Play(allowed)
    \/ Pause
    \/ \E allowed \in {TRUE} : Toggle(allowed)
    \/ \E outcome \in {"ok", "AbortError"} : PlaySettles(outcome)
    \/ \E v \in {JNum(0)} : Seek(v)
    \/ \E v \in {JNum(0)} : SeekBy(v)
    \/ \E standard \in BOOLEAN : Destroy(standard)
    \/ Deliver
    \/ MetadataReady
    \/ Frame

Spec == Init /\ [][Next]_vars

\* Volume, mute and theme: options, live requests and the element's
\* notifications.
VolumeInputs == {JStr("abc"), JNum(-1000), JNum(4000), JNum(4050), JNum(15000)}
VolumePartials ==
    {[volume |-> v] : v \in VolumeInputs}
    \cup {[muted |-> v] : v \in {JBool(TRUE), JBool(FALSE), JNumStr("0", 0)}}
    \cup {[volume |-> JNum(4000), muted |-> JBool(TRUE)]}
    \cup {[playbackRate |-> v] : v \in {JNum(500), JObj}}
    \cup {[theme |-> v] : v \in {JStr("blue"), JNum(100)}}

InitVolume ==
    InitWith({<<>>, [volume |-> JNumStr("40", 4000), muted |-> JNum(100)]}, "trace")

NextVolume ==
    \/ \E p \in VolumePartials : SetOptions(p, TRUE)
    \/ \E v \in {JStr("abc"), JNum(0), JNum(4000)} : SetVolume(v)
    \/ \E v \in {JNum(100), JNull} : SetPlaybackRate(v)
    \/ \E op \in {"mute", "unmute", "toggleMute"} : MuteCall(op)
    \/ Deliver

SpecVolume == InitVolume /\ [][NextVolume]_vars

\* The playback rate and its bounds; the other numeric keys only malformed.
RateInputs == {JUndef, JNum(150), JNum(500)}
BoundInputs == {JNaN, JNum(10), JNum(300)}
RatePartials ==
    {[playbackRate |-> v] : v \in RateInputs}
    \cup {[playbackRateMin |-> v] : v \in BoundInputs}
    \cup {[playbackRateMax |-> v] : v \in BoundInputs}
    \cup {[playbackRate |-> v, playbackRateMax |-> b] : v \in RateInputs, b \in BoundInputs}
    \cup {[playbackRateMin |-> a, playbackRateMax |-> b] : a, b \in BoundInputs}
    \cup {[volume |-> JStr("abc")], [seekStep |-> JUndef], [playbackRateStep |-> JInf]}

InitRate ==
    InitWith({<<>>, [volume |-> JNum(4000), playbackRateStep |-> JNum(10),
                     seekStep |-> JNum(500)]}, "trace")

NextRate ==
    \/ \E p \in RatePartials : SetOptions(p, TRUE)
    \/ \E v \in RateInputs : SetPlaybackRate(v)
    \/ \E v \in {JStr("abc"), JInf} : SetVolume(v)
    \/ Deliver

SpecRate == InitRate /\ [][NextRate]_vars

\* Sources: setOptions with a src key, load(), and the element's loading, on
\* a player that is not playing (Spec has the loads of a playing one).
SourcePartials == {[src |-> v] : v \in SrcInputs \cup {JPad("a.mp3")}}

InitSource == InitWith({<<>>, [src |-> JStr("a.mp3")]}, "trace")

NextSource ==
    \/ \E p \in SourcePartials, standard \in BOOLEAN : SetOptions(p, standard)
    \/ \E v \in SrcInputs, m \in Metas, standard \in BOOLEAN : Load(v, m, standard)
    \/ Deliver
    \/ MetadataReady

SpecSource == InitSource /\ [][NextSource]_vars

\* Volume and mute: players built muted or not, setVolume called twice in a
\* row or with deliveries in between.
InitMute ==
    InitWith({<<>>, [muted |-> JBool(TRUE)],
              [volume |-> JNum(4000), muted |-> JBool(TRUE)],
              [volume |-> JNum(0), muted |-> JBool(TRUE)]}, "pair")

NextMute ==
    \/ \E v \in {JNum(0), JNum(500), JNum(4000)} : SetVolume(v)
    \/ Deliver

SpecMute == InitMute /\ [][NextMute]_vars

\* Seeking: before and after the metadata of the source is known, with
\* targets below, inside and above [0, duration] and targets that are no
\* number.
SeekInputs == {JNum(-500), JNum(0), JNum(3000), JNum(6000), JNum(9000), JInf, JNaN}
SeekByInputs == {JNum(-1000), JNum(0), JNum(1000), JInf, JNaN}

InitSeek == InitWith({[src |-> JStr("a.mp3")]}, "trace")

NextSeek ==
    \/ \E v \in SeekInputs : Seek(v)
    \/ \E v \in SeekByInputs : SeekBy(v)
    \/ \E standard \in BOOLEAN : Load(JStr("a.mp3"), <<>>, standard)
    \/ MetadataReady
    \/ Deliver

SpecSeek == InitSeek /\ [][NextSeek]_vars

\* Handlers: on() and off() with names inside and outside EVENTS, functions
\* that return or raise and a value that is no function; emissions by the
\* volume listener, which may emit twice, and by seek().
EventHandlers ==
    {<<"volumechange", JFn("h1", 0)>>, <<"volumechange", JFn("thrower", 0)>>,
     <<"seek", JFn("thrower", 0)>>,
     <<"playing", JFn("h1", 0)>>, <<"volumechange", JStr("h1")>>}

InitEvents == InitWith({[src |-> JStr("a.mp3"), muted |-> JBool(TRUE)]}, "step")

NextEvents ==
    \/ \E s \in EventHandlers : On(s[1], s[2])
    \/ \E s \in EventHandlers : Off(s[1], s[2])
    \/ \E v \in {JNum(0), JNum(4000)} : SetVolume(v)
    \/ \E v \in {JNum(0), JNum(3000)} : Seek(v)
    \/ MetadataReady
    \/ Deliver

SpecEvents == InitEvents /\ [][NextEvents]_vars

\* Time: the clock advances in steps that meet and miss the 200 ms, and the
\* element notifies of its progress at any of these times.
InitTime == InitWith({<<>>}, "step")

NextTime ==
    \/ \E ms \in {50, 150} : Tick(ms)
    \/ TimeProgress
    \/ Deliver

SpecTime == InitTime /\ [][NextTime]_vars

\* Playback: play() allowed or blocked, its promise fulfilled or rejected for
\* any reason, with and without a source, and a handler on error.
PlayOutcomes == {"ok", "AbortError", "NotAllowedError", "NotSupportedError"}

InitPlay == InitWith({<<>>, [src |-> JStr("a.mp3")]}, "step")

NextPlay ==
    \/ On("error", JFn("h1", 0))
    \/ \E allowed \in BOOLEAN : Play(allowed)
    \/ \E allowed \in BOOLEAN : Toggle(allowed)
    \/ Pause
    \/ \E outcome \in PlayOutcomes : PlaySettles(outcome)
    \/ SourceFails
    \/ MetadataReady
    \/ Deliver

SpecPlay == InitPlay /\ [][NextPlay]_vars

\* Readiness: players built with and without a source, load() and
\* setOptions with and without a src key, and the element's loading.
ReadyPartials == {[src |-> JStr("http://h/b.mp3")], [volume |-> JNum(4000)]}

InitReady == InitWith({<<>>, [src |-> JStr("a.mp3")]}, "step")

NextReady ==
    \/ \E p \in ReadyPartials, standard \in BOOLEAN : SetOptions(p, standard)
    \/ \E v \in {JStr("a.mp3"), JStr("http://h/b.mp3")}, standard \in BOOLEAN :
           Load(v, <<>>, standard)
    \/ MetadataReady
    \/ Deliver

SpecReady == InitReady /\ [][NextReady]_vars

\* Track metadata: load() with metadata objects that supply every field, some
\* fields or none, well-formed and not, after tracks that had them.
MetaInputs ==
    {<<>>,
     [allowDownload |-> JBool(FALSE), title |-> JPad("Song"), filename |-> JPad("song.mp3")],
     [allowDownload |-> JNumStr("false", 0), title |-> JNum(700), filename |-> JPad("")],
     [filename |-> JStr("b.mp3")],
     [allowDownload |-> JBool(TRUE)]}

InitMeta == InitWith({<<>>}, "trace")

NextMeta ==
    \/ \E v \in {JStr("a.mp3"), JStr("")}, m \in MetaInputs : Load(v, m, TRUE)
    \/ \E p \in {[src |-> JStr("http://h/b.mp3")], [allowDownload |-> JBool(FALSE)]} :
           SetOptions(p, TRUE)

SpecMeta == InitMeta /\ [][NextMeta]_vars

\* Downloads: the permission of the options and of the track, players with
\* and without a source, and clicks on the download button.
DownloadPartials ==
    {[allowDownload |-> JBool(TRUE)], [allowDownload |-> JNum(0)],
     [src |-> JStr("a.mp3")], [downloadFilename |-> JStr("d.mp3")]}
DownloadMetas ==
    {<<>>, [allowDownload |-> JBool(FALSE)], [allowDownload |-> JBool(TRUE)],
     [allowDownload |-> JStr("yes"), filename |-> JStr("song.mp3")]}

InitDownload ==
    InitWith({<<>>, [allowDownload |-> JBool(FALSE)],
              [meta |-> [allowDownload |-> JBool(FALSE)], src |-> JStr("a.mp3")]}, "step")

NextDownload ==
    \/ \E p \in DownloadPartials : \E standard \in Builds(Has(p, "src")) :
           SetOptions(p, standard)
    \/ \E m \in DownloadMetas, standard \in BOOLEAN : Load(JStr("http://h/b.mp3"), m, standard)
    \/ On("download", JFn("h1", 0))
    \/ DownloadButton

SpecDownload == InitDownload /\ [][NextDownload]_vars

\* Synchronisation: options written by setOptions and load, live requests
\* written to the element, and the element's notifications in between, with
\* whole and fractional volumes.
SyncPartials ==
    {[volume |-> JNum(4050)], [volume |-> JNum(6000)], [muted |-> JBool(TRUE)],
     [playbackRate |-> JNum(150)], [src |-> JStr("http://h/b.mp3")]}

InitSync == InitWith({<<>>}, "trace")

NextSync ==
    \/ \E p \in SyncPartials : \E standard \in Builds(Has(p, "src")) :
           SetOptions(p, standard)
    \/ \E standard \in BOOLEAN : Load(JStr("a.mp3"), <<>>, standard)
    \/ \E v \in {JNum(2000)} : SetVolume(v)
    \/ \E v \in {JNum(50)} : SetPlaybackRate(v)
    \/ Deliver

SpecSync == InitSync /\ [][NextSync]_vars

\* The progress loop: play() and pause() at any moment, reloads, the
\* element playing to its end, its notifications and the frames.
InitLoop == InitWith({[src |-> JStr("a.mp3")]}, "step")

NextLoop ==
    \/ \E allowed \in {TRUE} : Play(allowed)
    \/ Pause
    \/ \E outcome \in {"ok", "AbortError"} : PlaySettles(outcome)
    \/ \E standard \in BOOLEAN : Load(JStr("a.mp3"), <<>>, standard)
    \/ MetadataReady
    \/ PlaysOn
    \/ Deliver
    \/ Frame

SpecLoop == InitLoop /\ [][NextLoop]_vars

\* Live requests: each of the five, followed at once or after the element's
\* notifications by a setOptions that names none of volume, muted and
\* playbackRate, or by load().
InitLive == InitWith({<<>>}, "pair")

NextLive ==
    \/ \E v \in {JNum(2000)} : SetVolume(v)
    \/ \E v \in {JNum(150)} : SetPlaybackRate(v)
    \/ \E op \in {"mute", "unmute", "toggleMute"} : MuteCall(op)
    \/ \E p \in {[theme |-> JStr("dark")]} : SetOptions(p, TRUE)
    \/ \E standard \in BOOLEAN : Load(JStr("a.mp3"), <<>>, standard)
    \/ Deliver

SpecLive == InitLive /\ [][NextLive]_vars

\* Teardown: handlers on play and error, one of which destroys the player,
\* playback with its promise, notifications and frames in flight, a control of
\* the surface, and destroy() at every moment.
Destroyers == {JFn("destroyer", 100), JFn("destroyer", 0)}
TeardownHandlers ==
    {<<"play", h>> : h \in Destroyers \cup {JFn("h1", 0)}} \cup {<<"error", JFn("h1", 0)>>}

InitTeardown == InitWith({<<>>}, "step")

NextTeardown ==
    \/ \E s \in TeardownHandlers : On(s[1], s[2])
    \/ \E allowed \in BOOLEAN : Play(allowed)
    \/ \E outcome \in {"ok", "AbortError", "NotAllowedError"} : PlaySettles(outcome)
    \/ Pause
    \/ \E standard \in BOOLEAN : Destroy(standard)
    \/ Deliver
    \/ Frame
    \/ MuteButton

SpecTeardown == InitTeardown /\ [][NextTeardown]_vars

\* formatRate on its own: Init draws the rate, the one step formats it with
\* either version of the function.  The rates are the hundredths from 0.2 to
\* 4, rates whose third decimal is 5, a rate above the range and the values
\* that are not finite.
LeastRate == 20
GreatestRate == 400
FormatInputs ==
    {Rate(10 * h, FALSE) : h \in LeastRate..GreatestRate}
    \cup {Rate(1005, TRUE), Rate(1255, TRUE), Rate(125, FALSE), Rate(1235, FALSE),
          Rate(1995, FALSE), Rate(10000, FALSE), NoRate}

InitFormat ==
    \E rate \in FormatInputs :
        /\ options = DEFAULT_OPTIONS
        /\ meta = EmptyMeta
        /\ media = FreshMedia
        /\ pending = <<>>
        /\ dom = FreshDom
        /\ rafId = FALSE
        /\ emitted = <<>>
        /\ destroyed = FALSE
        /\ handles = FALSE
        /\ events = NoHandlers
        /\ lastTimeEmit = 0
        /\ now = StartOfClock
        /\ emittedAt = <<>>
        /\ invoked = <<>>
        /\ subscribed = {}
        /\ raised = "none"
        /\ lastCall = [NoCall("call") EXCEPT !.arg = rate]

Format(version) ==
    /\ lastCall.op = "none"
    /\ lastCall' = [lastCall EXCEPT
                        !.op = version,
                        !.ret = IF version = "formatRate" THEN formatRate(lastCall.arg)
                                ELSE formatRateStripped(lastCall.arg),
                        !.fresh = TRUE]
    /\ UNCHANGED <<options, meta, media, pending, dom, rafId, destroyed, handles,
                   events, lastTimeEmit, now, emittedAt, emitted, invoked, subscribed,
                   raised>>

NextFormat == \E version \in {"formatRate", "formatRateStripped"} : Format(version)

SpecFormat == InitFormat /\ [][NextFormat]_vars

\* _mergeOptions on its own: Init draws the override, the one step merges it
\* into DEFAULT_OPTIONS.
MergeKeys == {"playbackRate", "playbackRateMin", "playbackRateMax", "volume", "foo"}
MergeValues == {JStr("fast"), JNum(300), JNum(250)}
MergeOverrides == UNION {[keys -> MergeValues] : keys \in SUBSET MergeKeys}

InitMerge ==
    \E override \in MergeOverrides :
        /\ options = DEFAULT_OPTIONS
        /\ meta = EmptyMeta
        /\ media = FreshMedia
        /\ pending = <<>>
        /\ dom = FreshDom
        /\ rafId = FALSE
        /\ emitted = <<>>
        /\ destroyed = FALSE
        /\ handles = FALSE
        /\ events = NoHandlers
        /\ lastTimeEmit = 0
        /\ now = StartOfClock
        /\ emittedAt = <<>>
        /\ invoked = <<>>
        /\ subscribed = {}
        /\ raised = "none"
        /\ lastCall = [NoCall("call") EXCEPT !.arg = override]

Merge(includeUnknown) ==
    /\ lastCall.op = "none"
    /\ lastCall' = [lastCall EXCEPT
                        !.op = "_mergeOptions",
                        !.ret = _mergeOptions(DEFAULT_OPTIONS, lastCall.arg, includeUnknown),
                        !.fresh = TRUE]
    /\ UNCHANGED <<options, meta, media, pending, dom, rafId, destroyed, handles,
                   events, lastTimeEmit, now, emittedAt, emitted, invoked, subscribed,
                   raised>>

NextMerge == \E includeUnknown \in BOOLEAN : Merge(includeUnknown)

SpecMerge == InitMerge /\ [][NextMerge]_vars

\* The options reconciliation on every numeric key, well-formed and malformed;
\* calls are not recorded.
OptionPartials ==
    {[volume |-> v] : v \in {JStr("abc"), JNum(-1000), JNum(15000)}}
    \cup {[muted |-> JBool(b)] : b \in BOOLEAN}
    \cup {[playbackRate |-> v] : v \in {JUndef, JNum(10), JNum(500)}}
    \cup {[playbackRateMin |-> v] : v \in {JNaN, JNum(10), JNum(300)}}
    \cup {[playbackRateMax |-> v] : v \in {JNaN, JNum(10), JNum(300)}}
    \cup {[playbackRate |-> v, playbackRateMax |-> b] :
              v \in {JUndef, JNum(10), JNum(500)}, b \in {JNaN, JNum(10), JNum(300)}}
    \cup {[playbackRateMin |-> a, playbackRateMax |-> b] : a, b \in {JNaN, JNum(10), JNum(300)}}
    \cup {[seekStep |-> v] : v \in {JObj, JNum(-500)}}
    \cup {[playbackRateStep |-> v] : v \in {JInf, JNum(500)}}
OptionOverrides ==
    {<<>>,
     [playbackRate |-> JStr("fast"), playbackRateMin |-> JNum(300),
      playbackRateMax |-> JNum(250)],
     [src |-> JStr("a.mp3"), volume |-> JNum(4000), foo |-> JObj]}

InitOptions == InitWith(OptionOverrides, "off")

NextOptions ==
    \/ \E p \in OptionPartials : SetOptions(p, TRUE)
    \/ \E standard \in BOOLEAN : Load(JStr("a.mp3"), <<>>, standard)
    \/ \E v \in {JStr("abc"), JNum(-1000), JNum(15000)} : SetVolume(v)
    \/ \E v \in {JUndef, JNum(10), JNum(500)} : SetPlaybackRate(v)
    \/ \E op \in {"mute", "unmute", "toggleMute"} : MuteCall(op)
    \/ Deliver
    \/ MetadataReady

SpecOptions == InitOptions /\ [][NextOptions]_vars

\* Partials of every kind, one key at a time: keys that change a field, a
\* bound that crosses the other, an unknown key, and arguments that are no
\* objects; live requests leave the element ahead of the options.
PartialInputs ==
    {[volume |-> JNum(4000)], [muted |-> JBool(TRUE)], [playbackRate |-> JNum(150)],
     [playbackRateMin |-> JNum(300)], [playbackRateMax |-> JNum(50)],
     [theme |-> JStr("dark")], [src |-> JStr("a.mp3")], [foo |-> JObj],
     JNull, JNum(500), JStr("abc")}

InitPartial == InitWith({<<>>, [seekStep |-> JNum(500), foo |-> JObj]}, "trace")

NextPartial ==
    \/ \E p \in PartialInputs : SetOptions(p, TRUE)
    \/ \E v \in {JNum(2000)} : SetVolume(v)
    \/ \E v \in {JNum(150)} : SetPlaybackRate(v)
    \/ Deliver

SpecPartial == InitPartial /\ [][NextPartial]_vars

\* resetOptions on players whose rate and bounds were moved away from the
\* defaults, by the constructor or by setOptions.
ResetPartials ==
    {[playbackRateMin |-> JNum(300), playbackRateMax |-> JNum(400)],
     [playbackRateMax |-> JNum(50)], [playbackRate |-> JNum(150)],
     [volume |-> JNum(4000), muted |-> JBool(TRUE)], [theme |-> JStr("dark")]}

InitReset ==
    InitWith({<<>>, [src |-> JStr("a.mp3"), seekStep |-> JNum(500)]}, "trace")

NextReset ==
    \/ \E p \in ResetPartials : SetOptions(p, TRUE)
    \/ \E p \in {<<>>, [volume |-> JNum(4000)], [playbackRate |-> JNum(150)]} :
           ResetOptions(p, TRUE)
    \/ \E v \in {JNum(150)} : SetPlaybackRate(v)
    \/ Deliver

SpecReset == InitReset /\ [][NextReset]_vars

\* The frames of the progress loop: playback started, paused, run to its end,
\* reloaded and torn down at any moment, with notifications and frames in
\* flight.
InitFrames == InitWith({[src |-> JStr("a.mp3")]}, "step")

NextFrames ==
    \/ \E allowed \in {TRUE} : Play(allowed)
    \/ Pause
    \/ \E outcome \in {"ok"} : PlaySettles(outcome)
    \/ \E v \in {JStr(""), JStr("a.mp3")}, standard \in BOOLEAN : Load(v, <<>>, standard)
    \/ \E standard \in {TRUE} : Destroy(standard)
    \/ MetadataReady
    \/ PlaysOn
    \/ Deliver
    \/ Frame

SpecFrames == InitFrames /\ [][NextFrames]_vars

\* The control surface: the two sliders and the mute button, between public
\* calls that write the same values, on players with and without a source.
ControlPartials ==
    {[volume |-> JNum(2000)], [muted |-> JBool(TRUE)], [playbackRate |-> JNum(150)],
     [playbackRateMax |-> JNum(120)], [src |-> JStr("a.mp3")]}

InitControls == InitWith({<<>>}, "step")

NextControls ==
    \/ \E v \in {JNumStr("0.5", 50), JNumStr("1.5", 150)} : RateSlider(v)
    \/ \E v \in {JNumStr("0", 0), JNumStr("40", 4000)} : VolumeSlider(v)
    \/ MuteButton
    \/ \E p \in ControlPartials : \E standard \in Builds(Has(p, "src")) :
           SetOptions(p, standard)
    \/ ResetOptions(<<>>, TRUE)
    \/ \E v \in {JNum(6000)} : SetVolume(v)
    \/ \E v \in {JNum(80)} : SetPlaybackRate(v)
    \/ \E op \in {"mute", "unmute", "toggleMute"} : MuteCall(op)
    \/ \E standard \in BOOLEAN : Load(JStr("http://h/b.mp3"), <<>>, standard)
    \/ Deliver

SpecControls == InitControls /\ [][NextControls]_vars

-----------------------------------------------------------------------------
(* The rates-list variant of the controller, src/unnamed/part_000.  It     *)
(* keeps a list of rates in place of the bounds, clamps every rate into    *)
(* 0.25..4, and its setOptions takes a second argument, silent.  What its  *)
(* text shares with src/src/audio-player.js (clampNumber, the registry,    *)
(* _updateRateUI, _updateVolumeUI, _syncDownloadState, _updateTitle, the   *)
(* ratechange and volumechange listeners) is modelled by the definitions   *)
(* above; what differs has a definition here, its name ending in _000.     *)

\* an array argument, as the list of its items
JArr(items) == [n |-> 0, t |-> "arr", s |-> "", items |-> items]

DEFAULT_OPTIONS_000 ==
    [src |-> "", volume |-> 7000, muted |-> FALSE, playbackRate |-> 100,
     seekStep |-> 1000, allowDownload |-> TRUE, showTime |-> TRUE,
     theme |-> "auto", downloadFilename |-> JNull, ariaLabelPrefix |-> "Audio player",
     unknown |-> {}, rates |-> <<50, 75, 100, 125, 150, 200>>]

OptionKeys_000 ==
    {"src", "volume", "muted", "playbackRate", "seekStep", "allowDownload", "rates",
     "showTime", "theme", "downloadFilename", "ariaLabelPrefix"}

\* normalizeRates(rates): the finite positive numbers of the array, each once,
\* in their order; the default list for no array and for none left
normalizeRates(rates) ==
    IF rates.t # "arr" THEN DEFAULT_OPTIONS_000.rates
    ELSE LET num(i) == ToNumber(rates.items[i])
             kept(i) == /\ num(i).fin /\ num(i).n > 0
                        /\ \A j \in 1..(i - 1) : ~(num(j).fin /\ num(j).n = num(i).n)
             at == SelectSeq([i \in 1..Len(rates.items) |-> i], kept)
         IN  IF at = <<>> THEN DEFAULT_OPTIONS_000.rates
             ELSE [k \in 1..Len(at) |-> num(at[k]).n]

\* normalizeTheme(theme)
normalizeTheme(theme) ==
    IF theme.t = "str" /\ theme.s \in {"light", "dark", "auto"} THEN theme.s
    ELSE DEFAULT_OPTIONS_000.theme

\* this._mergeOptions(base, override, includeUnknown) of part_000
_mergeOptions_000(base, override, includeUnknown) ==
    LET taken(key) ==
            Has(override, key) /\ (includeUnknown \/ key \in OptionKeys_000 \cup base.unknown)
        raw(key) == IF taken(key) THEN override[key] ELSE OptionValue(base, key)
    IN  [src |-> IF IsString(raw("src")) THEN StringOf(raw("src")) ELSE "",
         volume |-> Coalesce(clampNumber(raw("volume"), 0, 10000), base.volume),
         muted |-> ToBoolean(raw("muted")),
         playbackRate |-> Coalesce(clampNumber(raw("playbackRate"), 25, 400), 100),
         seekStep |-> Coalesce(clampNumber(raw("seekStep"), 100, 12000), base.seekStep),
         allowDownload |-> ToBoolean(raw("allowDownload")),
         showTime |-> ToBoolean(raw("showTime")),
         theme |-> normalizeTheme(raw("theme")),
         downloadFilename |-> TrimmedOrNull(raw("downloadFilename")),
         ariaLabelPrefix |-> TrimmedOr(raw("ariaLabelPrefix"), base.ariaLabelPrefix),
         unknown |-> base.unknown \cup
                     {k \in DOMAIN override \ OptionKeys_000 : includeUnknown},
         rates |-> IF taken("rates") THEN normalizeRates(override.rates) ELSE base.rates]

\* setOptions of part_000, lines 159-258: the record `next`
SetOptionsNext_000(cur, partial) ==
    LET clampInto(key, lo, hi, old) ==
            IF Has(partial, key)
            THEN Coalesce(clampNumber(partial[key], lo, hi), old)
            ELSE old
        truthOf(key, old) == IF Has(partial, key) THEN ToBoolean(partial[key]) ELSE old
    IN  [src |-> IF Has(partial, "src")
                 THEN (IF IsString(partial.src) THEN StringOf(partial.src) ELSE "")
                 ELSE cur.src,
         volume |-> clampInto("volume", 0, 10000, cur.volume),
         muted |-> truthOf("muted", cur.muted),
         playbackRate |-> clampInto("playbackRate", 25, 400, cur.playbackRate),
         seekStep |-> clampInto("seekStep", 100, 12000, cur.seekStep),
         allowDownload |-> truthOf("allowDownload", cur.allowDownload),
         showTime |-> truthOf("showTime", cur.showTime),
         theme |-> IF Has(partial, "theme") THEN normalizeTheme(partial.theme)
                   ELSE cur.theme,
         downloadFilename |-> IF Has(partial, "downloadFilename")
                              THEN TrimmedOrNull(partial.downloadFilename)
                              ELSE cur.downloadFilename,
         ariaLabelPrefix |-> IF Has(partial, "ariaLabelPrefix")
                             THEN TrimmedOr(partial.ariaLabelPrefix,
                                            DEFAULT_OPTIONS_000.ariaLabelPrefix)
                             ELSE cur.ariaLabelPrefix,
         unknown |-> cur.unknown,
         rates |-> IF Has(partial, "rates") THEN normalizeRates(partial.rates)
                   ELSE cur.rates]

\* _applyOptions of part_000, lines 715-717: a non-empty options.src is
\* written to the element whatever the element has
ApplySrc_000(w, standard) ==
    IF w.options.src # "" THEN SetMediaSrc(w, w.options.src, standard) ELSE w

\* this._applyOptions() of part_000
_applyOptions_000(w, standard) ==
    _updateTitle(ApplySrc_000(ApplyTheme(_syncDownloadState(SyncVolume(SyncRate(w)))),
                              standard))

\* load of part_000, lines 284 and 305-307: src against what audio.src read at entry
EmitSrcChange_000(w, src, previous) ==
    IF src # previous THEN Emit(w, Ev("srcchange", 0, 0, FALSE, src)) ELSE w

\* this.load(src, meta) of part_000 for a src that passed the guard of line 283
load_000(w, src, m, standard) ==
    EmitSrcChange_000(
        ResetProgress(_syncDownloadState(_updateTitle(
            MediaLoadAlgorithm(
                SetMediaSrc([w EXCEPT !.meta = MetaOf(m), !.options.src = src],
                            src, standard),
                standard)))),
        src, MediaSrc(w.media))

\* setOptions of part_000, lines 267-277: what a call that is not silent tells
AnnounceVolume_000(w, previous) ==
    IF previous.volume # w.options.volume
    THEN Emit(w, Ev("volumechange", w.options.volume, 0, FALSE, ""))
    ELSE w
AnnounceMuted_000(w, previous) ==
    IF previous.muted # w.options.muted
    THEN Emit(w, Ev("mutechange", 0, 0, w.options.muted, ""))
    ELSE w
AnnounceRate_000(w, previous) ==
    IF previous.playbackRate # w.media.playbackRate THEN EmitRateChange(w) ELSE w

\* setOptions of part_000, lines 261-265: a src key reloads
ReloadAfter_000(w, partial, standard) ==
    IF Has(partial, "src") /\ w.options.src # ""
    THEN load_000(w, w.options.src, <<>>, standard)
    ELSE w

\* this.setOptions(partial, silent) of part_000
setOptions_000(w, partial, silent, standard) ==
    IF NotAnObject(partial) THEN w
    ELSE \* the world before the announcements
         LET applied ==
                 ReloadAfter_000(
                     _applyOptions_000([w EXCEPT !.options =
                                            SetOptionsNext_000(w.options, partial)],
                                       standard),
                     partial, standard)
         IN  IF silent THEN applied
             ELSE AnnounceRate_000(
                      AnnounceMuted_000(AnnounceVolume_000(applied, w.options), w.options),
                      w.options)

\* new AudioPlayer(container, override) of part_000
Construct_000(override, standard) ==
    \* lines 98, 103 and 107-109
    LET merged == NewWorld(_mergeOptions_000(DEFAULT_OPTIONS_000, override, TRUE))
        own == setOptions_000(merged,
                              [k \in (OptionKeys_000 \cup merged.options.unknown) \ {"rates"} |->
                                  OptionValue(merged.options, k)]
                              @@ [rates |-> JArr([i \in 1..Len(merged.options.rates) |->
                                                     JNum(merged.options.rates[i])])],
                              TRUE, standard)
    IN  IF own.options.src # ""
        THEN load_000(own, own.options.src,
                      IF Has(override, "meta") THEN override.meta ELSE <<>>, standard)
        ELSE own

\* The listeners part_000 binds to the media element's notifications.
Handle_000(w, name) ==
    CASE name = "ratechange" -> EmitRateChange(_updateRateUI(w))
      [] name = "volumechange" -> _updateVolumeUI(w, FALSE)
      [] name = "loadedmetadata" -> EmitReady(_updateDuration(w))
      [] OTHER -> w

\* setOptions(partial, silent) of part_000
SetOptions_000(partial, silent, standard) ==
    /\ ReturnedWith("setOptions", partial, [silent |-> JBool(silent)],
                    Result(setOptions_000(Entry, partial, silent, standard), "none"))
    /\ UNCHANGED subscribed

\* The element fires its oldest queued notification at part_000's listeners.
Deliver_000 ==
    /\ pending # <<>>
    /\ BackgroundOf(Handle_000([Resume EXCEPT !.pending = Tail(@)], Head(pending)),
                    "notification", JStr(Head(pending)))

\* Volume, mute, rate and source set through the setOptions of part_000,
\* silently and not, and the element's notifications.
Partials_000 ==
    {[volume |-> JNum(4000)], [muted |-> JBool(TRUE)], [playbackRate |-> JNum(150)],
     [src |-> JStr("a.mp3")], [src |-> JStr("http://h/b.mp3")]}

Init_000 ==
    \E override \in {<<>>,
                      [src |-> JStr("a.mp3"), theme |-> JStr("blue"),
                       rates |-> JArr(<<JNum(100), JStr("fast"), JNum(100), JNum(200)>>)]},
       standard \in BOOLEAN :
        \E w \in {Construct_000(override, standard)} : InitFrom(w, override, "trace")

Next_000 ==
    \/ \E p \in Partials_000, silent \in BOOLEAN :
           \E standard \in Builds(Has(p, "src")) : SetOptions_000(p, silent, standard)
    \/ Deliver_000
    \/ MetadataReady

Spec_000 == Init_000 /\ [][Next_000]_vars

-----------------------------------------------------------------------------
(* Properties.                                                             *)

NumericKeys ==
    {"volume", "seekStep", "playbackRate", "playbackRateMin", "playbackRateMax",
     "playbackRateStep"}

\* the declared domains of the numeric options
OptionsInDomain(o) ==
    /\ 0 <= o.volume /\ o.volume <= 10000
    /\ 100 <= o.seekStep /\ o.seekStep <= 12000
    /\ 1 <= o.playbackRateStep /\ o.playbackRateStep <= 100
    /\ 20 <= o.playbackRateMin /\ o.playbackRateMin <= o.playbackRateMax
    /\ o.playbackRateMax <= 400
    /\ o.playbackRateMin <= o.playbackRate /\ o.playbackRate <= o.playbackRateMax

\* the current state is the one the public call `op` returned in
After(op) == lastCall.fresh /\ lastCall.op = op

\* the positions in `emitted` of the events called `name`
Emitted(name) == {i \in 1..Len(emitted) : emitted[i].name = name}

\* C1: in every state of a player built from arbitrary initial options and
\* driven by setOptions with arbitrary partials, load, setVolume,
\* setPlaybackRate, mute/unmute/toggleMute and the element's notifications,
\* the options record has 0 <= volume <= 100, 1 <= seekStep <= 120,
\* 0.01 <= playbackRateStep <= 1, 0.2 <= playbackRateMin <= playbackRateMax
\* <= 4 and playbackRateMin <= playbackRate <= playbackRateMax, and no call
\* has raised.  (Option values are plain data: numbers, NaN, Infinity,
\* strings, booleans, null, undefined, objects.)
C1_OptionsInDomain == OptionsInDomain(options) /\ raised = "none"

\* C1 witness: malformed initial options (rate "fast", bounds given the wrong
\* way round) and malformed partials (volume -10, seekStep -5) have been
\* reconciled, with a notification still queued.
C1_Witness ==
    /\ options.playbackRateMin = 250 /\ options.playbackRateMax = 300
    /\ options.playbackRate = 250
    /\ options.volume = 0 /\ options.seekStep = 100
    /\ pending # <<>>

\* C2: after construction and after every setOptions call options.theme is
\* one of "auto", "light", "dark"; any other supplied value gives "auto".
C2_ThemeInEnum == options.theme \in {"auto", "light", "dark"}

\* C3: _mergeOptions(DEFAULT_OPTIONS, override, includeUnknown) returns, for
\* every override, a record whose numeric fields are inside their declared
\* domains, in particular playbackRateMin <= playbackRate <= playbackRateMax
\* also when override.playbackRate is no finite number.  (base and override
\* are values here; that the method does not write to them is not part of
\* this formula.)
C3_MergedInDomain == After("_mergeOptions") => OptionsInDomain(lastCall.ret)

\* C4: for every finite number v, setOptions({volume: v}) returns and stores
\* volume = min(100, max(0, v)).
C4_VolumeClamped ==
    (After("setOptions") /\ Has(lastCall.arg, "volume")) =>
        (lastCall.arg.volume.t = "num" =>
            LET v == lastCall.arg.volume.n
            IN  /\ lastCall.ret.volume = MinOf(10000, MaxOf(0, v))
                /\ options.volume = MinOf(10000, MaxOf(0, v)))

\* C4 witness: setOptions({volume: 150}) has returned with 100 stored, where
\* the volume was not 100 before.
C4_Witness ==
    /\ After("setOptions")
    /\ lastCall.arg = [volume |-> JNum(15000)]
    /\ lastCall.before.options.volume # 10000
    /\ options.volume = 10000

\* C5: setOptions({playbackRateMin: m}) with m, clamped to [0.2, 4], above
\* the current playbackRateMax stores the old maximum as playbackRateMin and
\* m as playbackRateMax, and the stored playbackRate and the element's rate
\* are the old rate clamped into the swapped bounds; symmetrically for
\* setOptions({playbackRateMax: m}) with m below the current minimum.
C5_BoundsSwapped ==
    After("setOptions") =>
        LET old == lastCall.before.options
            ret == lastCall.ret
            reclamped ==
                /\ ret.playbackRate =
                       MinOf(ret.playbackRateMax,
                             MaxOf(ret.playbackRateMin, old.playbackRate))
                /\ options = ret
                /\ media.playbackRate = ret.playbackRate
        IN  /\ (DOMAIN lastCall.arg = {"playbackRateMin"}
                    /\ lastCall.arg.playbackRateMin.t = "num") =>
                LET m == MinOf(400, MaxOf(20, lastCall.arg.playbackRateMin.n))
                IN  m > old.playbackRateMax =>
                        /\ ret.playbackRateMin = old.playbackRateMax
                        /\ ret.playbackRateMax = m
                        /\ reclamped
            /\ (DOMAIN lastCall.arg = {"playbackRateMax"}
                    /\ lastCall.arg.playbackRateMax.t = "num") =>
                LET m == MinOf(400, MaxOf(20, lastCall.arg.playbackRateMax.n))
                IN  m < old.playbackRateMin =>
                        /\ ret.playbackRateMax = old.playbackRateMin
                        /\ ret.playbackRateMin = m
                        /\ reclamped

\* C5 witness: setOptions({playbackRateMin: 3}) has returned on bounds
\* [0.2, 2] with rate 1.5: the bounds are [2, 3], the rate 2.
C5_Witness ==
    /\ After("setOptions")
    /\ lastCall.arg = [playbackRateMin |-> JNum(300)]
    /\ lastCall.before.options.playbackRateMax = 200
    /\ lastCall.before.options.playbackRate = 150
    /\ options.playbackRateMin = 200 /\ options.playbackRateMax = 300
    /\ options.playbackRate = 200 /\ media.playbackRate = 200

\* a key the partial of the last call supplies with a value that does not
\* (Malformed) or does (WellFormed) convert to a finite number
Malformed(key) == Has(lastCall.arg, key) /\ ~ToNumber(lastCall.arg[key]).fin
WellFormed(key) == Has(lastCall.arg, key) /\ ToNumber(lastCall.arg[key]).fin

\* setVolume and setPlaybackRate with a value that converts to no finite
\* number leave the element's volume, muted flag and rate alone and emit nothing
InvalidLiveRequestIgnored ==
    ((After("setVolume") \/ After("setPlaybackRate")) /\ ~ToNumber(lastCall.arg).fin) =>
        /\ raised = "none"
        /\ emitted = <<>>
        /\ media.volume = lastCall.before.media.volume
        /\ media.muted = lastCall.before.media.muted
        /\ media.playbackRate = lastCall.before.media.playbackRate

\* C6 as stated: a setOptions call that supplies a value that converts to no
\* finite number for volume, seekStep, playbackRate, playbackRateMin,
\* playbackRateMax or playbackRateStep leaves that field at its previous value
\* and raises nothing; setVolume and setPlaybackRate with such a value leave
\* the element's volume, muted flag and rate unchanged and emit nothing.
C6_InvalidLeavesField ==
    /\ After("setOptions") =>
           /\ raised = "none"
           /\ \A key \in NumericKeys :
                  Malformed(key) => lastCall.ret[key] = lastCall.before.options[key]
    /\ InvalidLiveRequestIgnored

\* C6 amended: such a value is ignored and raises nothing.  volume, seekStep
\* and playbackRateStep then keep their previous value; so do playbackRate,
\* playbackRateMin and playbackRateMax unless the same call supplies a finite
\* value for a rate bound, in which case the bounds are the previous bound and
\* the supplied one in ascending order and playbackRate is the previous rate
\* clamped into the resulting bounds.  setVolume and setPlaybackRate as stated.
C6_InvalidIgnored ==
    /\ After("setOptions") =>
           LET old == lastCall.before.options
               ret == lastCall.ret
               boundGiven == WellFormed("playbackRateMin") \/ WellFormed("playbackRateMax")
               given(key) == MinOf(400, MaxOf(20, ToNumber(lastCall.arg[key]).n))
           IN  /\ raised = "none"
               /\ \A key \in {"volume", "seekStep", "playbackRateStep"} :
                      Malformed(key) => ret[key] = old[key]
               /\ ~boundGiven =>
                      \A key \in {"playbackRate", "playbackRateMin", "playbackRateMax"} :
                          Malformed(key) => ret[key] = old[key]
               /\ boundGiven =>
                      /\ Malformed("playbackRate") =>
                             ret.playbackRate =
                                 MinOf(ret.playbackRateMax,
                                       MaxOf(ret.playbackRateMin, old.playbackRate))
                      /\ Malformed("playbackRateMin") =>
                             /\ ret.playbackRateMin =
                                    MinOf(old.playbackRateMin, given("playbackRateMax"))
                             /\ ret.playbackRateMax =
                                    MaxOf(old.playbackRateMin, given("playbackRateMax"))
                      /\ Malformed("playbackRateMax") =>
                             /\ ret.playbackRateMin =
                                    MinOf(old.playbackRateMax, given("playbackRateMin"))
                             /\ ret.playbackRateMax =
                                    MaxOf(old.playbackRateMax, given("playbackRateMin"))
    /\ InvalidLiveRequestIgnored

\* C6 witness: setOptions({playbackRate: undefined, playbackRateMax: 0.1}) has
\* returned: the rate, supplied malformed, went from 1.5 to 0.2.
C6_Witness ==
    /\ After("setOptions")
    /\ lastCall.arg = [playbackRate |-> JUndef, playbackRateMax |-> JNum(10)]
    /\ lastCall.before.options.playbackRate = 150
    /\ options.playbackRate = 20
    /\ raised = "none"

\* C7: once the notifications a setOptions call caused are delivered, a call
\* that changed options.volume has led to a volumechange event carrying the
\* new volume, one that changed options.muted to a mutechange event carrying
\* the new flag, one that changed the playback rate to a ratechange event, and
\* one that changed none of the three to none of these events.  (Calls made
\* while no notification was outstanding.)
C7_ChangeEvents ==
    (lastCall.op = "setOptions" /\ lastCall.before.pending = <<>> /\ pending = <<>>) =>
        LET old == lastCall.before.options
            ret == lastCall.ret
        IN  /\ ret.volume # old.volume =>
                   \E i \in Emitted("volumechange") : emitted[i].n = ret.volume
            /\ ret.muted # old.muted =>
                   \E i \in Emitted("mutechange") : emitted[i].b = ret.muted
            /\ ret.playbackRate # old.playbackRate => Emitted("ratechange") # {}
            /\ (ret.volume = old.volume /\ ret.muted = old.muted
                    /\ ret.playbackRate = old.playbackRate) =>
                   Emitted("volumechange") \cup Emitted("mutechange")
                       \cup Emitted("ratechange") = {}

\* C8: setOptions with a src key emits srcchange only if the normalized new
\* source differs from the options.src held before the call: when it differs
\* and is non-empty, exactly one srcchange carrying the new src; when it is
\* identical, none.
C8_SrcChangeOnSetOptions ==
    (After("setOptions") /\ Has(lastCall.arg, "src")) =>
        LET new == IF IsString(lastCall.arg.src) THEN StringOf(lastCall.arg.src) ELSE ""
            old == lastCall.before.options.src
        IN  /\ new = old => Emitted("srcchange") = {}
            /\ (new # old /\ new # "") =>
                   /\ Cardinality(Emitted("srcchange")) = 1
                   /\ \A i \in Emitted("srcchange") : emitted[i].s = new

\* C8 witness: setOptions({src: "http://h/b.mp3"}) has returned on a player
\* whose options.src was "a.mp3", having emitted the one srcchange.
C8_Witness ==
    /\ After("setOptions")
    /\ lastCall.arg = [src |-> JStr("http://h/b.mp3")]
    /\ lastCall.before.options.src = "a.mp3"
    /\ options.src = "http://h/b.mp3"
    /\ emitted = <<Ev("srcchange", 0, 0, FALSE, "http://h/b.mp3")>>

\* C9: load(s) with a non-empty string s emits srcchange exactly when s
\* differs from the source the element held immediately before the call; so
\* the second of two load(s) in a row emits none.
C9_SrcChangeOnLoad ==
    (After("load") /\ ~LoadRejects(lastCall.arg)) =>
        LET held == IF lastCall.before.media.hasSrc
                    THEN lastCall.before.media.srcAttr ELSE ""
        IN  Emitted("srcchange") # {} <=> StringOf(lastCall.arg) # held

\* C10: after destroy() has returned, every public call returns without
\* raising, changes no controller or media state and emits no event.
C10_NoOpAfterDestroy ==
    [][(destroyed /\ lastCall'.fresh) =>
           /\ raised' = "none"
           /\ emitted' = <<>>
           /\ UNCHANGED <<options, meta, media, dom, pending, rafId, destroyed>>]_vars

\* the controller's own state: what destroy() leaves must stay as it is
Controller == <<options, meta, dom, rafId, destroyed, handles, events, lastTimeEmit>>

\* a step that is a callback and no public call
IsCallback(c) == c.op \in {"notification", "play settled", "frame", "input"}

\* C11: once destroy() has returned, no handler that was registered before it
\* is invoked again and no pending callback (a media notification, the
\* outcome of play(), a frame, an input of the control surface) changes the
\* controller, whenever destroy() was called: with such a callback pending,
\* or from inside a handler during an emission.  A step in which the player
\* becomes destroyed invokes no handler after destroy() returned and leaves
\* the registry empty; a callback on a destroyed player changes nothing.
C11_DestroyIsFinal ==
    [][/\ (~destroyed /\ destroyed') =>
            /\ \A i \in DOMAIN invoked' : ~invoked'[i].destroyed
            /\ events' = NoHandlers
       /\ (destroyed /\ IsCallback(lastCall')) => UNCHANGED Controller]_vars

\* C12: destroy() is idempotent.  The first call leaves the player destroyed,
\* with an empty registry, no handles and no frame requested; a later call
\* raises nothing and leaves the controller, the element and its queue exactly
\* as they were.
C12_DestroyIdempotent ==
    [][(lastCall'.op = "destroy" /\ lastCall'.fresh) =>
            /\ raised' = "none"
            /\ destroyed' /\ ~handles' /\ ~rafId'
            /\ IF destroyed
               THEN UNCHANGED <<Controller, media, pending>> /\ emitted' = <<>>
               ELSE events' = NoHandlers]_vars

\* a second destroy() has returned while a notification was still queued
C12_Witness ==
    /\ lastCall.op = "destroy" /\ lastCall.fresh
    /\ lastCall.before.destroyed
    /\ pending # <<>>

\* C13: on a muted player, setVolume(0) followed by setVolume(v) with
\* 0 < v <= 100 leaves the element unmuted, and once the element's volume
\* notifications have been delivered a volumechange event carrying v and a
\* mutechange event carrying false have been emitted, whatever the volume
\* was before and whether or not notifications were delivered between the
\* two calls.
C13_UnmuteEmitsBoth ==
    (/\ lastCall.op = "setVolume" /\ lastCall.prev = [op |-> "setVolume", arg |-> JNum(0)]
     /\ lastCall.arg.t = "num" /\ lastCall.arg.n > 0 /\ lastCall.arg.n <= 10000
     /\ lastCall.before.media.muted) =>
        /\ ~media.muted
        /\ pending = <<>> =>
               /\ \E i \in Emitted("volumechange") : emitted[i].n = lastCall.arg.n
               /\ \E i \in Emitted("mutechange") : emitted[i].b = FALSE

\* the target of the last seek or seekBy call, for a numeric argument
SeekTarget ==
    IF lastCall.op = "seek" THEN lastCall.arg.n
    ELSE lastCall.before.media.currentTime + lastCall.arg.n

\* the last call moved the position to `to` and emitted one seek {from, to}
SeekMoved(from, to) ==
    /\ emitted = <<Ev("seek", to, from, FALSE, "")>>
    /\ media = [lastCall.before.media EXCEPT !.currentTime = to]
    /\ to # from

\* the last call changed nothing and emitted nothing
SeekIgnored ==
    /\ emitted = <<>>
    /\ media = lastCall.before.media
    /\ dom = lastCall.before.dom
    /\ pending = lastCall.before.pending

\* C14: seek(t) and seekBy(d) move the position and emit seek only when the
\* duration is finite and the target, clamped into [0, duration], differs
\* from the position; then one seek {from, to} is emitted, with from the
\* position before, 0 <= to <= duration, to # from and the element at to.  In
\* every other case (a duration that is not finite, a clamped target equal to
\* the position, a delta that is not finite) the call changes nothing and
\* emits nothing.  A target that is not a number equals no position.
C14_SeekContract ==
    (After("seek") \/ After("seekBy")) =>
        LET old == lastCall.before.media
            finite == lastCall.arg.t = "num"
            clamped == IF finite THEN MaxOf(0, MinOf(old.duration, SeekTarget))
                       ELSE old.duration
            differs == IF lastCall.op = "seekBy" THEN finite /\ clamped # old.currentTime
                       ELSE lastCall.arg.t = "nan" \/ clamped # old.currentTime
        IN  IF old.duration # NaN /\ differs
            THEN SeekMoved(old.currentTime, clamped) /\ 0 <= clamped /\ clamped <= old.duration
            ELSE SeekIgnored

\* how often the last step called handler h for the event `name`
Invocations(name, h) ==
    Cardinality({i \in DOMAIN invoked : invoked[i].name = name /\ invoked[i].handler = h})

\* C15: whatever on() and off() calls were made, each emission of an event
\* calls a handler at most once, and exactly when the event is one of EVENTS
\* and the latest on() or off() for the pair was an on(): a handler registered
\* twice is called once, one off() removes it, and an on() with an unknown
\* name or with a value that is no function registers nothing.
C15_HandlersInvokedOnce ==
    ~destroyed =>
        /\ \A i \in DOMAIN invoked : Subscribed(invoked[i].name, invoked[i].handler)
        /\ \A s \in subscribed :
               /\ s.name \in EVENTS /\ IsFunction(s.handler)
               /\ Invocations(s.name, s.handler) = Cardinality(Emitted(s.name))
        /\ \A name \in EVENTS : \A i \in DOMAIN events[name] :
               Subscribed(name, events[name][i])

\* C15 witness: volumechange was emitted and h1, registered twice for it, was
\* called once.
C15_Witness ==
    /\ Subscription("volumechange", JFn("h1", 0), TRUE) \in subscribed
    /\ Emitted("volumechange") # {}
    /\ Invocations("volumechange", JFn("h1", 0)) = 1

\* the last step called a handler that raised
HandlerRaised == \E i \in DOMAIN invoked : Raises(invoked[i].handler)

\* C16: when a handler raises during an emission, every other handler of the
\* event is still called, the exception does not reach the caller, and the
\* operation that emitted completes: the volume listener goes on to store
\* and emit the mute flag, seek() returns with the position moved.
C16_HandlerErrorIsolated ==
    (HandlerRaised /\ ~destroyed) =>
        /\ raised = "none"
        /\ \A s \in subscribed :
               Invocations(s.name, s.handler) = Cardinality(Emitted(s.name))
        /\ (lastCall.op = "notification" /\ lastCall.arg = JStr("volumechange")) =>
               /\ options.volume = MathRound(media.volume)
               /\ options.muted = media.muted
        /\ lastCall.op = "seek" =>
               media.currentTime = lastCall.arg.n /\ dom.position = lastCall.arg.n

\* C16 witness: the first handler of volumechange raised, the second was
\* called after it, and the listener went on to emit mutechange.
C16_Witness ==
    /\ Len(invoked) = 2
    /\ invoked[1].handler = JFn("thrower", 0) /\ invoked[2].handler = JFn("h1", 0)
    /\ Emitted("volumechange") # {} /\ Emitted("mutechange") # {}
    /\ options.muted = media.muted

\* the events of the last step that are called `name`
EmittedNext(name) == {i \in DOMAIN emitted' : emitted'[i].name = name}

\* C17: with the clock never running backwards, two consecutive emissions of
\* timeupdate are at least 200 ms apart, and a notification of the element
\* that is handled 200 ms or more after the latest emission (or before any)
\* is emitted: the listener emits once if that much time has passed since the
\* latest emission, and not at all otherwise.
C17_TimeUpdateThrottled ==
    [][(~destroyed /\ lastCall'.op = "notification" /\ lastCall'.arg = JStr("timeupdate")) =>
            IF emittedAt = <<>> \/ now - emittedAt[1] >= 200
            THEN Cardinality(EmittedNext("timeupdate")) = 1 /\ emittedAt' = <<now>>
            ELSE EmittedNext("timeupdate") = {} /\ emittedAt' = emittedAt]_vars

\* C17 witness: a notification handled 150 ms after an emission was dropped.
C17_Witness ==
    /\ lastCall.op = "notification" /\ lastCall.arg = JStr("timeupdate")
    /\ emittedAt # <<>> /\ now - emittedAt[1] = 150
    /\ Emitted("timeupdate") = {}

\* C18: play() on a live player returns without raising and emits nothing,
\* whether or not playback will start.  When the element later rejects the
\* request, its reaction emits exactly one error event, which carries the
\* reason; when the element fulfils it, no error event is emitted.
C18_PlayFailureReported ==
    [][~destroyed =>
            /\ (lastCall'.op = "play" /\ lastCall'.fresh) =>
                   raised' = "none" /\ emitted' = <<>>
            /\ lastCall'.op = "play settled" =>
                   emitted' = IF lastCall'.arg = JStr("ok") THEN <<>>
                              ELSE <<Ev("error", 0, 0, FALSE, lastCall'.arg.s)>>]_vars

\* C18 witness: a play() that the element did not allow was rejected, and the
\* handler of error was called once with that reason.
C18_Witness ==
    /\ lastCall.op = "play settled" /\ lastCall.arg = JStr("NotAllowedError")
    /\ emitted = <<Ev("error", 0, 0, FALSE, "NotAllowedError")>>
    /\ Len(invoked) = 1
    /\ media.paused

\* C19: every ratechange event carries the playbackRate the element has when
\* it is emitted, never a requested value that was not clamped: after
\* setPlaybackRate(r) or setOptions({playbackRate: r}), a partial with this
\* one key, with a number r the rate reported is r clamped into
\* [playbackRateMin, playbackRateMax].
C19_RateChangeCarriesActualRate ==
    \A i \in Emitted("ratechange") :
        /\ emitted[i].n = media.playbackRate
        /\ (lastCall.op = "setPlaybackRate" /\ lastCall.arg.t = "num") =>
               emitted[i].n = MinOf(options.playbackRateMax,
                                    MaxOf(options.playbackRateMin, lastCall.arg.n))
        /\ (lastCall.op = "setOptions" /\ DOMAIN lastCall.arg = {"playbackRate"}
                /\ lastCall.arg.playbackRate.t = "num") =>
               emitted[i].n = MinOf(lastCall.ret.playbackRateMax,
                                    MaxOf(lastCall.ret.playbackRateMin,
                                          lastCall.arg.playbackRate.n))

\* C19 witness: after setPlaybackRate(5) with a maximum below 5 the event
\* reports the maximum.
C19_Witness ==
    /\ lastCall.op = "setPlaybackRate" /\ lastCall.arg = JNum(500)
    /\ options.playbackRateMax < 500
    /\ \E i \in Emitted("ratechange") : emitted[i].n = options.playbackRateMax

\* C20: ready is emitted only where the listener of the element's
\* metadata-ready notification runs, once for each notification, and carries
\* the duration and the source the element has at that moment; the
\* constructor with an initial src, load() and setOptions() emit no ready
\* themselves, nor does any other step.
C20_ReadyOnMetadata ==
    IF lastCall.op = "notification" /\ lastCall.arg = JStr("loadedmetadata")
    THEN \E i \in DOMAIN emitted :
             /\ Emitted("ready") = {i}
             /\ emitted[i].n = media.duration
             /\ emitted[i].s = MediaSrc(media)
    ELSE Emitted("ready") = {}

\* C20 witness: the notification for a.mp3 was handled and ready reports its
\* duration and its resolved address.
C20_Witness ==
    /\ lastCall.op = "notification" /\ lastCall.arg = JStr("loadedmetadata")
    /\ emitted = <<Ev("ready", 6000, 0, FALSE, "http://h/a.mp3")>>

\* the guard of load as the contract words it: a source that is empty or is
\* no string
EmptyOrNoString(v) == ~IsString(v) \/ StringOf(v) = ""

\* C21: load(source, meta) with a source that is empty or no string changes
\* nothing: the options record, the track metadata, the element (its source,
\* paused flag, volume, rate), its queue, the control surface and the
\* progress loop are as before, no event is emitted and nothing is raised.
C21_LoadRejectedIsNoOp ==
    [][(lastCall'.op = "load" /\ lastCall'.fresh /\ EmptyOrNoString(lastCall'.arg)) =>
            /\ UNCHANGED <<options, meta, media, pending, dom, rafId>>
            /\ emitted' = <<>>
            /\ raised' = "none"]_vars

\* C21 witness: load with such a source has returned on a player that is
\* playing a source, with its progress loop running.
C21_Witness ==
    /\ After("load") /\ EmptyOrNoString(lastCall.arg)
    /\ ~destroyed /\ ~media.paused /\ rafId
    /\ options.src = "a.mp3"

\* C22: after load(src, meta) with a valid src the track metadata is the
\* normalization of meta alone: title the trimmed string or empty, filename
\* the trimmed string if that is not empty and absent otherwise,
\* allowDownload the boolean or unset.  Nothing of the previous track's
\* metadata is kept: a field that meta does not supply is reset.
C22_MetaReplacedWholesale ==
    (After("load") /\ ~EmptyOrNoString(lastCall.arg)) =>
        LET m == lastCall.meta
            supplied(key) == key \in DOMAIN m
        IN  /\ meta.title = IF supplied("title") /\ IsString(m.title)
                            THEN Trim(m.title).s ELSE ""
            /\ meta.filename = IF supplied("filename") /\ IsString(m.filename)
                                    /\ Trim(m.filename).s # ""
                               THEN JStr(Trim(m.filename).s) ELSE JNull
            /\ meta.allowDownload = IF supplied("allowDownload")
                                         /\ m.allowDownload \in {JBool(TRUE), JBool(FALSE)}
                                    THEN m.allowDownload ELSE JUndef

\* C22 witness: a track with title, filename and a download override was
\* followed by load(src, {filename: "b.mp3"}); title and override are reset.
C22_Witness ==
    /\ After("load") /\ lastCall.arg = JStr("a.mp3")
    /\ lastCall.meta = [filename |-> JStr("b.mp3")]
    /\ lastCall.before.meta =
           [allowDownload |-> JBool(FALSE), title |-> "Song", filename |-> JStr("song.mp3")]
    /\ meta = [allowDownload |-> JUndef, title |-> "", filename |-> JStr("b.mp3")]

\* the effective download permission: the track's override if it is a
\* boolean, the options flag otherwise
DownloadPermitted ==
    IF meta.allowDownload \in {JBool(TRUE), JBool(FALSE)}
    THEN meta.allowDownload = JBool(TRUE)
    ELSE options.allowDownload

\* C23: after any sequence of construction, setOptions and load calls the
\* download control is enabled exactly when the effective download permission
\* holds (the track metadata's allowDownload if it is a boolean, otherwise
\* options.allowDownload).  A download event is emitted only by a click on
\* the download control while it is enabled and the permission holds, and it
\* is emitted before the browser-level download action of that click.
C23_DownloadFollowsPermission ==
    [][/\ dom.downloadDisabled = ~DownloadPermitted
       /\ dom'.downloadDisabled = ~DownloadPermitted'
       /\ EmittedNext("download") # {} =>
              /\ lastCall'.op = "input" /\ lastCall'.arg = JStr("downloadBtn")
              /\ ~dom.downloadDisabled /\ DownloadPermitted
              /\ dom'.link.announced
              /\ dom'.link.href = emitted'[1].s]_vars

\* C23 witness: the options forbid downloads, the track allows them, and a
\* click on the enabled control has emitted download and then followed the
\* link, with the track's filename.
C23_Witness ==
    /\ lastCall.op = "input" /\ lastCall.arg = JStr("downloadBtn")
    /\ ~options.allowDownload /\ meta.allowDownload = JBool(TRUE)
    /\ emitted = <<Ev("download", 0, 0, FALSE, "http://h/b.mp3")>>
    /\ dom.link = [href |-> "http://h/b.mp3", download |-> "", announced |-> TRUE]
    /\ Len(invoked) = 1

\* setOptions, or load with a valid source, has just returned
AppliedOptions == After("setOptions") \/ (After("load") /\ ~EmptyOrNoString(lastCall.arg))

\* the element holds the options' rate, volume and muted flag, and the rate
\* display and the mute indicator show the element's
ElementFollowsOptions ==
    /\ media.playbackRate = options.playbackRate
    /\ media.volume = options.volume
    /\ media.muted = options.muted
    /\ dom.rateValue = media.playbackRate
    /\ dom.muted = media.muted

\* C24 as stated: when setOptions or load (with a valid source) returns, the
\* element's playbackRate, volume and muted flag equal options.playbackRate,
\* options.volume / 100 and options.muted, and the displayed rate, the volume
\* slider and label and the mute indicator equal the element's values.
C24_ControlsEqualElement ==
    AppliedOptions => (ElementFollowsOptions /\ dom.volumeValue = media.volume)

\* C24 amended: as stated, except that the volume slider and label show the
\* element's volume rounded to a whole percent.  The element is written
\* before the control is refreshed, so the controls show the value just
\* applied and not the one before.
C24_ControlsShowElement ==
    AppliedOptions => (ElementFollowsOptions /\ dom.volumeValue = MathRound(media.volume))

\* C24 witness: setOptions({volume: 60}) has returned on a player whose
\* element had been set to 20 by a live request: element and slider are at 60.
C24_Witness ==
    /\ After("setOptions") /\ lastCall.arg = [volume |-> JNum(6000)]
    /\ lastCall.before.media.volume = 2000 /\ lastCall.before.dom.volumeValue # 6000
    /\ media.volume = 6000 /\ dom.volumeValue = 6000

\* the element is playing, the notification of its start has been handled and
\* the player is live
PlayingAndNotified ==
    /\ ~destroyed /\ ~media.paused
    /\ \A i \in DOMAIN pending : pending[i] # "play"

\* C25: whenever the element is playing, its play notification has been
\* handled and the player is not destroyed, a frame callback is requested;
\* and a frame callback that runs while the element is playing shows the
\* element's position and leaves the next one requested.  So the position
\* display is refreshed on every frame until the element pauses or ends or
\* the player is destroyed, however play(), pause(), load(), the element's
\* play, pause and ended notifications and the frames interleave.
C25_ProgressLoopRuns ==
    /\ PlayingAndNotified => rafId
    /\ (lastCall.op = "frame" /\ ~media.paused /\ ~destroyed) =>
           /\ rafId
           /\ dom.position = media.currentTime
           /\ dom.currentTime = formatTime(media.currentTime)

\* C25 witness: the element is playing with no notification queued, it has
\* played on to 30 s, and a frame has run: the display shows 30 s and the
\* next frame is requested.
C25_Witness ==
    /\ lastCall.op = "frame"
    /\ ~media.paused /\ pending = <<>> /\ rafId
    /\ media.currentTime = 3000 /\ dom.position = 3000

\* C26: the volume that getOptions() returns is an integer between 0 and 100
\* after construction and after every setOptions call that supplies a finite
\* volume, fractional ones such as 50.5 included.
C26_VolumeIsInteger ==
    (After("constructor")
         \/ (After("setOptions") /\ Has(lastCall.arg, "volume")
                 /\ ToNumber(lastCall.arg.volume).fin)) =>
        options.volume \in {100 * percent : percent \in 0..100}

\* the text of C27 for a rate that rounds to h hundredths: the whole part,
\* then the decimals without their trailing zeros, with no point if none is
\* left, then "x"
ShortestText(h) ==
    Digits(h \div 100)
        \o (CASE h % 100 = 0 -> <<>>
              [] h % 100 # 0 /\ h % 10 = 0 -> <<".", Digit((h % 100) \div 10)>>
              [] OTHER -> <<".", Digit((h % 100) \div 10), Digit(h % 10)>>)
        \o <<"x">>

\* what C27 asks of the text made from lastCall.arg
RateTextAsClaimed ==
    lastCall.ret = IF lastCall.arg.fin THEN ShortestText(RoundTimes100(lastCall.arg))
                   ELSE <<"1", "x">>

\* C27: formatRate(r) is r rounded to two decimal places, followed by "x",
\* with trailing zeros and a trailing decimal point removed: 1.005, which
\* rounds to 1.00, gives "1x" and 1.5 gives "1.5x"; a rate that is not finite
\* gives "1x".
C27_FormatRate == After("formatRate") => RateTextAsClaimed

\* the same of the formatRate of src/unnamed/part_000
FormatRateStrippedAsClaimed == After("formatRateStripped") => RateTextAsClaimed

LiveRequests == {"setVolume", "setPlaybackRate", "mute", "unmute", "toggleMute"}

\* the last call was setOptions with a partial that names none of the live
\* keys, or load()
Bystander ==
    \/ lastCall.op = "load"
    \/ /\ lastCall.op = "setOptions"
       /\ DOMAIN lastCall.arg \cap {"volume", "muted", "playbackRate"} = {}

\* The live request that is being followed up, if there is one: the last
\* call, or the call before it when the last call is a bystander.
RequestMade ==
    CASE lastCall.op \in LiveRequests -> [op |-> lastCall.op, arg |-> lastCall.arg]
      [] Bystander /\ lastCall.prev.op \in LiveRequests -> lastCall.prev
      [] OTHER -> NoPrev

\* the muted flag the element had when the request was made
MutedAtRequest ==
    IF lastCall.op \in LiveRequests THEN lastCall.before.media.muted
    ELSE ~lastCall.before.media.muted

\* C28: a valid live request is never lost.  After setVolume(v),
\* setPlaybackRate(r), mute(), unmute() or toggleMute(), once every pending
\* notification of the element is delivered, the element and the options
\* record hold the requested volume, rate or muted flag, also when setOptions
\* with a partial that lacks the key, or load(), was called between the
\* request and the delivery of its notification.
C28_LiveRequestKept ==
    (~destroyed /\ pending = <<>>) =>
        LET request == RequestMade
            asked == ToNumber(request.arg).n
        IN  /\ request.op = "setVolume" =>
                   /\ media.volume = MinOf(10000, MaxOf(0, asked))
                   /\ options.volume = MinOf(10000, MaxOf(0, asked))
            /\ request.op = "setPlaybackRate" =>
                   /\ media.playbackRate =
                          MinOf(options.playbackRateMax, MaxOf(options.playbackRateMin, asked))
                   /\ options.playbackRate = media.playbackRate
            /\ request.op = "mute" => (media.muted /\ options.muted)
            /\ request.op = "unmute" => (~media.muted /\ ~options.muted)
            /\ request.op = "toggleMute" =>
                   (media.muted = ~MutedAtRequest /\ options.muted = ~MutedAtRequest)

\* C29: in every state of a live player in which the element has no
\* notification of its volume or its rate pending, the options record agrees
\* with the element: options.volume = Math.round(volume * 100),
\* options.muted = muted and options.playbackRate = playbackRate.
C29_OptionsShadowElement ==
    (~destroyed /\ \A i \in DOMAIN pending : pending[i] \notin {"volumechange", "ratechange"}) =>
        /\ options.volume = MathRound(media.volume)
        /\ options.muted = media.muted
        /\ options.playbackRate = media.playbackRate

\* the source string the element holds: its src attribute, "" without one
HeldSource == IF media.hasSrc THEN media.srcAttr ELSE ""

\* C30: after construction and after every setOptions or load call on a live
\* player, options.src is the source string the element holds, also after
\* setOptions({src: ""}) and setOptions with a src that is no string.
C30_SrcMatchesElement ==
    (~destroyed /\ (After("constructor") \/ After("setOptions") \/ After("load"))) =>
        options.src = HeldSource

\* C31: setOptions reloads (pauses the element, stops the progress loop,
\* resets the track metadata to empty and the position display to zero) only
\* when the normalized src of the partial differs from the options.src held
\* before; a partial without a src key, or with the src the options already
\* have, as in setOptions(getOptions()), leaves the track metadata, the
\* element's paused flag and the position display as they were.
C31_ReloadOnlyOnNewSrc ==
    After("setOptions") =>
        LET new == IF IsString(lastCall.arg.src) THEN StringOf(lastCall.arg.src) ELSE ""
            same == ~Has(lastCall.arg, "src") \/ new = lastCall.before.options.src
        IN  same =>
                /\ meta = lastCall.before.meta
                /\ media.paused = lastCall.before.media.paused
                /\ rafId = lastCall.before.rafId
                /\ dom.position = lastCall.before.dom.position
                /\ dom.currentTime = lastCall.before.dom.currentTime

BoundKeys == {"playbackRateMin", "playbackRateMax"}

\* C32: setOptions(partial) leaves every option whose key is absent from the
\* partial as it was, and the set of unknown keys held since construction as
\* it was; the only exceptions come with a bound key in the partial: the
\* other bound changes only by taking the place of the one that crossed it,
\* and a rate that changes was outside the new bounds and is now the nearest
\* of them.  A call whose argument is not an object changes nothing at all.
C32_AbsentKeysKept ==
    After("setOptions") =>
        LET p == lastCall.arg
            b == lastCall.before.options
            bounded == BoundKeys \cap DOMAIN p # {}
        IN  IF p \in {JNull, JNum(500), JStr("abc")}
            THEN Snapshot = lastCall.before /\ emitted = <<>>
            ELSE /\ \A k \in (OptionKeys \ DOMAIN p) \ (BoundKeys \cup {"playbackRate"}) :
                        options[k] = b[k]
                 /\ options.unknown = b.unknown
                 /\ ~bounded =>
                        \A k \in (BoundKeys \cup {"playbackRate"}) \ DOMAIN p :
                            options[k] = b[k]
                 /\ (~Has(p, "playbackRateMin") /\ options.playbackRateMin # b.playbackRateMin)
                        => options.playbackRateMax = b.playbackRateMin
                 /\ (~Has(p, "playbackRateMax") /\ options.playbackRateMax # b.playbackRateMax)
                        => options.playbackRateMin = b.playbackRateMax
                 /\ (~Has(p, "playbackRate") /\ options.playbackRate # b.playbackRate)
                        => \/ /\ b.playbackRate < options.playbackRateMin
                              /\ options.playbackRate = options.playbackRateMin
                           \/ /\ b.playbackRate > options.playbackRateMax
                              /\ options.playbackRate = options.playbackRateMax

\* setOptions({playbackRateMin: 3}) has returned on a player built with an
\* unknown key and a seekStep of 5: the bound crossed the maximum of 2 and
\* took its place, the rate followed to 2, and every other option, the
\* seekStep and the unknown key among them, is as before.
C32_Witness ==
    /\ After("setOptions")
    /\ lastCall.arg = [playbackRateMin |-> JNum(300)]
    /\ lastCall.before.options.playbackRateMax = 200
    /\ options.playbackRateMin = 200 /\ options.playbackRateMax = 300
    /\ options.playbackRate = 200
    /\ options.seekStep = 500 /\ options.unknown = {"foo"}
    /\ options.volume = lastCall.before.options.volume

\* C33: for every options record a player can hold and every partial,
\* setOptions(partial) leaves the options record that
\* _mergeOptions(current, partial, false) computes; so a playbackRate that
\* comes together with new bounds ends as the requested rate clamped into
\* the new bounds, whatever the bounds were before the call.
C33_SetOptionsIsMerge ==
    (After("setOptions") /\ ~(lastCall.arg \in {JNull, JNum(500), JStr("abc")})) =>
        options = _mergeOptions(lastCall.before.options, lastCall.arg, FALSE)

\* C34: resetOptions() with no argument leaves every option of
\* DEFAULT_OPTIONS at its default (volume 100, muted false, playbackRate 1,
\* bounds 0.2..2, step 0.05, seekStep 10, ...), whatever the rate and
\* its bounds were before; resetOptions(partial) leaves the options that
\* setOptions(partial) makes of the defaults.
C34_ResetRestoresDefaults ==
    After("resetOptions") =>
        LET defaults == [DEFAULT_OPTIONS EXCEPT !.unknown = options.unknown]
        IN  IF lastCall.arg = <<>> THEN options = defaults
            ELSE options = SetOptionsNext(defaults, lastCall.arg)

\* how many events called `name` were emitted since the last public call began
Count(name) == Cardinality(Emitted(name))

\* C35: in the rates-list variant, a setOptions call that is not silent and
\* changes the playback rate has exactly one ratechange event emitted for it,
\* the one setOptions emits and the one the listener of the element's
\* notification emits counted together: never more than one, and one once
\* the element's notification has been handled; a changed volume has exactly
\* one volumechange and a changed muted flag exactly one mutechange.
C35_OneEventPerChange ==
    (/\ lastCall.op = "setOptions"
     /\ lastCall.meta = [silent |-> JBool(FALSE)]
     /\ lastCall.before.pending = <<>>) =>
        LET b == lastCall.before.options
            r == lastCall.ret
        IN  /\ b.playbackRate # r.playbackRate =>
                   /\ Count("ratechange") <= 1
                   /\ pending = <<>> => Count("ratechange") = 1
            /\ b.volume # r.volume => Count("volumechange") = 1
            /\ b.muted # r.muted => Count("mutechange") = 1

\* C36: in the rates-list variant, setOptions({src: s}) with a non-empty s
\* that is not the source held before, neither as options.src nor as the
\* element's src, emits exactly one srcchange event, and it carries s.
C36_SrcChangeOnce ==
    (/\ After("setOptions")
     /\ Has(lastCall.arg, "src")
     /\ lastCall.arg.src.s # ""
     /\ lastCall.arg.src.s # lastCall.before.options.src
     /\ ResolveURL(lastCall.arg.src.s) # MediaSrc(lastCall.before.media)) =>
        /\ Count("srcchange") = 1
        /\ \A i \in Emitted("srcchange") : emitted[i].s = lastCall.arg.src.s

Controls == {"rateSlider", "muteBtn", "volumeSlider"}

\* the option a control touches
KeyOf(control) ==
    CASE control = "rateSlider" -> "playbackRate"
      [] control = "muteBtn" -> "muted"
      [] control = "volumeSlider" -> "volume"

\* the rate within the bounds of the options
Bounded(rate) == MinOf(options.playbackRateMax, MaxOf(options.playbackRateMin, rate))

\* C37: optionschange is emitted only by a step that handles an input of the
\* rate slider, the mute button or the volume slider, so by no public method
\* (setOptions, resetOptions, setVolume, setPlaybackRate, mute, unmute,
\* toggleMute, load) and by no notification of the element; every such input
\* on a live player emits it exactly once, when the element has been written
\* (the slider's rate within the bounds, the slider's volume and the unmuting
\* that a positive volume brings, a queued volumechange for the mute button),
\* with changedKeys naming the option of the control and options carrying the
\* element's volume in whole percent, its muted flag and its rate.
C37_OptionsChangeOnInput ==
    LET input == lastCall.op = "input" /\ lastCall.arg.s \in Controls
    IN  /\ Count("optionschange") > 0 => input
        /\ (input /\ ~destroyed) =>
               /\ Count("optionschange") = 1
               /\ \A i \in Emitted("optionschange") :
                      /\ emitted[i].s = KeyOf(lastCall.arg.s)
                      /\ emitted[i].n = MathRound(media.volume)
                      /\ emitted[i].b = media.muted
                      /\ emitted[i].m = media.playbackRate
               /\ lastCall.arg.s = "rateSlider" =>
                      media.playbackRate = Bounded(lastCall.arg.n)
               /\ lastCall.arg.s = "volumeSlider" =>
                      /\ media.volume = lastCall.arg.n
                      /\ lastCall.arg.n > 0 => ~media.muted
               /\ lastCall.arg.s = "muteBtn" =>
                      pending # <<>> /\ pending[Len(pending)] = "volumechange"

\* The volume slider has just been moved to 40 on a player whose options
\* still hold a volume of 100: one optionschange was emitted, for the key
\* volume, and it carries the element's 40.
C37_Witness ==
    /\ lastCall.op = "input" /\ lastCall.arg = Input("volumeSlider", JNumStr("40", 4000))
    /\ options.volume = 10000 /\ media.volume = 4000
    /\ Count("optionschange") = 1
    /\ \A i \in Emitted("optionschange") : emitted[i].s = "volume" /\ emitted[i].n = 4000

\* the frames the window holds for the progress loop, and what follows the
\* steps that stop the loop
FramesPending ==
    /\ dom.frames <= 1
    /\ rafId <=> dom.frames = 1
    /\ (lastCall.op = "notification" /\ lastCall.arg.s \in {"pause", "ended"}) =>
           dom.frames = 0
    /\ (lastCall.op = "load" /\ ~LoadRejects(lastCall.arg)) => dom.frames = 0
    /\ lastCall.op = "destroy" => dom.frames = 0

\* a step in which a frame callback runs on a paused element or a destroyed
\* player leaves the displays alone and requests no frame
IdleFrame ==
    (lastCall'.op = "frame" /\ (media.paused \/ destroyed)) =>
        /\ [dom' EXCEPT !.frames = dom.frames] = dom
        /\ dom'.frames = 0 /\ ~rafId'

\* C38: in every state the window holds at most one frame callback of the
\* progress loop, and holds one exactly while this._rafId is set; it holds
\* none when a pause or ended notification has been handled, when load() has
\* returned for a source it accepts, and when destroy() has returned; and a
\* frame callback that runs while the element is paused or the player is
\* destroyed changes no display and requests no further frame.
C38_OneFramePending == []FramesPending /\ [][IdleFrame]_vars

\* A frame callback has just run on an element that pause() had paused, the
\* pause notification still being queued: no frame is requested any more.
C38_Witness ==
    /\ lastCall.op = "frame"
    /\ media.paused /\ ~destroyed
    /\ pending # <<>> /\ Head(pending) = "pause"
    /\ dom.frames = 0 /\ ~rafId

====
